------------------------------ MODULE JoystickDsl ------------------------------
(***************************************************************************)
(* The conditions of config.yaml's transitions: the recursive descent      *)
(* parser of deploy/include/unitree_joystick_dsl.hpp, which reads one      *)
(* condition in a behaviour.  The calls that have not returned yet are a   *)
(* variable.  A syntax tree stands for the predicate it is compiled to:    *)
(* what the evaluation gives on every joystick.                            *)
(***************************************************************************)
EXTENDS Integers, Sequences

CONSTANTS
    Identifiers,  \* the words of conditions: keys and other names, units, states
    Keys,         \* the identifiers that name a key
    Texts         \* the conditions, as the sequences of the lexer's tokens

Numbers == {"1", "2"}
Punctuation == {"+", "|", "!", "(", ")", "."}
Units == {"s", "sec", "secs"}
Fields == {"pressed", "on_pressed", "on_released"}
End == "end"

ASSUME DslAssumption ==
    /\ Identifiers \cap (Numbers \cup Punctuation \cup {End}) = {}
    /\ Texts \subseteq Seq(Identifiers \cup Numbers \cup Punctuation)

VARIABLES
    text,   \* the condition
    pos,    \* the number of the token the parser looks at
    stage,  \* "unary": ParseUnary() has been called; "return": a call returns
            \* value; "parsed", "thrown": what Parse() has done
    calls,  \* the calls that wait for another to return, the innermost last
    value   \* the tree the last call returned, <<>> before the first

dslVars == <<text, pos, stage, calls, value>>

Token(ts, i) == IF i \in DOMAIN ts THEN ts[i] ELSE End

-----------------------------------------------------------------------------
(* The compiled predicates.  GetKey() throws at the first unknown name that  *)
(* the evaluation comes to; && and || do not evaluate what they can skip.    *)

Seconds == [n \in Numbers |-> IF n = "1" THEN 1 ELSE 2]

\* What the program knows of a key: a key that is up keeps the time it was
\* held last.
KeyStates ==
    {[pressed |-> p, on_pressed |-> FALSE, on_released |-> FALSE, pressed_time |-> n] :
        p \in BOOLEAN, n \in 0 .. 2}
    \cup {[pressed |-> TRUE, on_pressed |-> TRUE, on_released |-> FALSE, pressed_time |-> 0],
          [pressed |-> FALSE, on_pressed |-> FALSE, on_released |-> TRUE, pressed_time |-> 2]}
Joysticks == [Keys -> KeyStates]
Answers == {"true", "false", "throws"}

Truth(b) == IF b THEN "true" ELSE "false"

KeyIs(key, field, hold) ==
    IF field = "held" THEN key.pressed /\ key.pressed_time >= hold ELSE key[field]

Atom(name, field, hold) ==
    [joy \in Joysticks |->
        IF name \in Keys THEN Truth(KeyIs(joy[name], field, hold)) ELSE "throws"]

Negation(p) ==
    [joy \in Joysticks |-> IF p[joy] = "throws" THEN "throws" ELSE Truth(p[joy] = "false")]

Both(p, q) == [joy \in Joysticks |-> IF p[joy] = "true" THEN q[joy] ELSE p[joy]]

Either(p, q) == [joy \in Joysticks |-> IF p[joy] = "false" THEN q[joy] ELSE p[joy]]

-----------------------------------------------------------------------------
(* ParseAtom() calls none of the others: it returns the tree it built and    *)
(* the number of the token after it, or throws.                              *)

Thrown == [ok |-> FALSE]
Built(node, next) == [ok |-> TRUE, node |-> node, next |-> next]

\* The '.' and the state after it, if there are any.
StateSuffix(ts, name, field, hold, i) ==
    IF Token(ts, i) # "." THEN Built(Atom(name, field, hold), i)
    ELSE IF Token(ts, i + 1) \in Fields THEN Built(Atom(name, Token(ts, i + 1), hold), i + 2)
    ELSE Thrown

\* After the number of a hold: the unit may be left out.
AfterNumber(ts, i) == IF Token(ts, i) \in Units THEN i + 1 ELSE i

AtomAt(ts, i) ==
    LET close == AfterNumber(ts, i + 3)
    IN IF Token(ts, i) \notin Identifiers THEN Thrown
       ELSE IF Token(ts, i + 1) # "(" THEN StateSuffix(ts, Token(ts, i), "pressed", 0, i + 1)
       ELSE IF Token(ts, i + 2) \in Numbers /\ Token(ts, close) = ")"
            THEN StateSuffix(ts, Token(ts, i), "held", Seconds[Token(ts, i + 2)], close + 1)
            ELSE Thrown

-----------------------------------------------------------------------------
(* The parser                                                                *)

\* A call that waits: "not" and "group" in ParseUnary(), "and" in ParseAnd(),
\* "or" in ParseOr(), with the left operand it has, if it has one.
Frame(call, left) == [call |-> call, left |-> left]

\* ParseOr() calls ParseAnd() calls ParseUnary(), before anything else.
ParseAnd == <<Frame("and", <<>>)>>
ParseOr == <<Frame("or", <<>>)>> \o ParseAnd

Frames ==
    [call : {"not", "group", "and", "or"}, left : Seq([Joysticks -> Answers])]

TypeOKDsl ==
    /\ text \in Seq(Identifiers \cup Numbers \cup Punctuation) /\ pos \in 1 .. Len(text) + 1
    /\ stage \in {"unary", "return", "parsed", "thrown"}
    /\ calls \in Seq(Frames)
    /\ stage \in {"return", "parsed"} => value \in [Joysticks -> Answers]

InitDsl ==
    /\ text \in Texts
    /\ pos = 1 /\ stage = "unary" /\ calls = ParseOr /\ value = <<>>

Innermost == calls[Len(calls)]
Outer == SubSeq(calls, 1, Len(calls) - 1)

\* ParseUnary() is called at the next token, on top of the calls waiting.
Descend(waiting) ==
    /\ stage' = "unary" /\ pos' = pos + 1 /\ calls' = waiting
    /\ UNCHANGED <<text, value>>

Throw == stage' = "thrown" /\ UNCHANGED <<text, pos, calls, value>>

\* Mutant: a negation reaches to the end of the conjunction.
ParseNotWide ==
    /\ stage = "unary" /\ Token(text, pos) = "!"
    /\ Descend(calls \o <<Frame("not", <<>>)>> \o ParseAnd)

ParseNot ==
    /\ stage = "unary" /\ Token(text, pos) = "!"
    /\ Descend(Append(calls, Frame("not", <<>>)))

ParseGroup ==
    /\ stage = "unary" /\ Token(text, pos) = "("
    /\ Descend(calls \o <<Frame("group", <<>>)>> \o ParseOr)

ParseAtom ==
    /\ stage = "unary" /\ Token(text, pos) \notin {"!", "("}
    /\ LET atom == AtomAt(text, pos)
       IN \/ /\ atom.ok
             /\ stage' = "return" /\ value' = atom.node /\ pos' = atom.next
             /\ UNCHANGED <<text, calls>>
          \/ ~atom.ok /\ Throw

ReturnTo(call) == stage = "return" /\ calls # <<>> /\ Innermost.call = call

\* The innermost waiting call returns in its turn.
ReturnOn(node, next) ==
    /\ value' = node /\ pos' = next /\ calls' = Outer
    /\ UNCHANGED <<text, stage>>

ReturnNot == ReturnTo("not") /\ ReturnOn(Negation(value), pos)

ReturnGroup ==
    /\ ReturnTo("group")
    /\ \/ Token(text, pos) = ")" /\ ReturnOn(value, pos + 1)
       \/ Token(text, pos) # ")" /\ Throw

\* The tree of a loop's operands so far: it grows to the left.
Joined(frame, node) ==
    IF frame.left = <<>> THEN node
    ELSE IF frame.call = "and" THEN Both(frame.left[1], node)
    ELSE Either(frame.left[1], node)

ReturnAnd ==
    /\ ReturnTo("and")
    /\ LET left == Joined(Innermost, value)
       IN \/ Token(text, pos) = "+" /\ Descend(Append(Outer, Frame("and", <<left>>)))
          \/ Token(text, pos) # "+" /\ ReturnOn(left, pos)

ReturnOr ==
    /\ ReturnTo("or")
    /\ LET left == Joined(Innermost, value)
       IN \/ Token(text, pos) = "|" /\ Descend(Append(Outer, Frame("or", <<left>>)) \o ParseAnd)
          \/ Token(text, pos) # "|" /\ ReturnOn(left, pos)

\* Parse(): nothing may be left.
Parse ==
    /\ stage = "return" /\ calls = <<>>
    /\ stage' = IF Token(text, pos) = End THEN "parsed" ELSE "thrown"
    /\ UNCHANGED <<text, pos, calls, value>>

NextDsl ==
    \/ ParseNot \/ ParseGroup \/ ParseAtom
    \/ ReturnNot \/ ReturnGroup \/ ReturnAnd \/ ReturnOr \/ Parse

SpecDsl == InitDsl /\ [][NextDsl]_dslVars

-----------------------------------------------------------------------------
(* The grammar of unitree_joystick_dsl.hpp:192-193 and what its phrases      *)
(* mean, stated on the whole text instead of token by token: the phrase from *)
(* i to j is the tokens i .. j - 1.                                          *)

\* [ '(' number ['s'|'sec'|'secs'] ')' ]
IsHold(ts, i, j) ==
    \/ j = i
    \/ /\ Token(ts, i) = "(" /\ Token(ts, i + 1) \in Numbers /\ Token(ts, j - 1) = ")"
       /\ j = i + 3 \/ (j = i + 4 /\ Token(ts, i + 2) \in Units)

\* [ '.' (pressed|on_pressed|on_released) ]
IsState(ts, i, j) ==
    \/ j = i
    \/ j = i + 2 /\ Token(ts, i) = "." /\ Token(ts, i + 1) \in Fields

\* A name whose hold ends before k and whose state ends before j: the state
\* counts before the hold.
AtomMeaning(ts, i, k, j) ==
    IF k < j THEN Atom(Token(ts, i), Token(ts, j - 1), 0)
    ELSE IF i + 1 < k THEN Atom(Token(ts, i), "held", Seconds[Token(ts, i + 2)])
    ELSE Atom(Token(ts, i), "pressed", 0)

AtomMeanings(ts, i, j) ==
    {AtomMeaning(ts, i, k, j) : k \in {l \in i + 1 .. j :
        Token(ts, i) \in Identifiers /\ IsHold(ts, i + 1, l) /\ IsState(ts, l, j)}}

\* Where the phrase can be divided at a token.
Divisions(ts, t, i, j) == {k \in i .. j - 1 : Token(ts, k) = t}

Phrases(ts) ==
    [kind : {"operand", "conjunction", "expression"}, from : 1 .. Len(ts) + 1,
     to : 1 .. Len(ts) + 1]
Phrase(kind, i, j) == [kind |-> kind, from |-> i, to |-> j]

\* The meanings of every phrase.  Negation binds its operand, a conjunction is
\* of operands and an expression of conjunctions.
Meanings(ts) ==
    LET M[phrase \in Phrases(ts)] ==
            LET i == phrase.from
                j == phrase.to
            IN CASE phrase.kind = "operand" ->
                        AtomMeanings(ts, i, j)
                        \cup (IF i < j /\ Token(ts, i) = "!"
                              THEN {Negation(p) : p \in M[Phrase("operand", i + 1, j)]} ELSE {})
                        \cup (IF i + 1 < j /\ Token(ts, i) = "(" /\ Token(ts, j - 1) = ")"
                              THEN M[Phrase("expression", i + 1, j - 1)] ELSE {})
                 [] phrase.kind = "conjunction" ->
                        M[Phrase("operand", i, j)]
                        \cup UNION {{Both(p, q) : p \in M[Phrase("operand", i, k)],
                                                  q \in M[Phrase("conjunction", k + 1, j)]} :
                                    k \in Divisions(ts, "+", i, j)}
                 [] phrase.kind = "expression" ->
                        M[Phrase("conjunction", i, j)]
                        \cup UNION {{Either(p, q) : p \in M[Phrase("conjunction", i, k)],
                                                    q \in M[Phrase("expression", k + 1, j)]} :
                                    k \in Divisions(ts, "|", i, j)}
    IN M

Meaning(ts) == Meanings(ts)[Phrase("expression", 1, Len(ts) + 1)]

-----------------------------------------------------------------------------
(* Properties *)

\* What config.yaml's author wrote is what the FSM thread evaluates: a
\* condition is rejected exactly when the grammar does not derive it, and one
\* that is accepted has one meaning, which is the predicate it is compiled to.
\* Code: Parse() and Compile() of unitree_joystick_dsl.hpp.
ConditionsReadTheGrammar ==
    /\ stage = "parsed" => Meaning(text) = {value}
    /\ stage = "thrown" => Meaning(text) = {}

\* No condition keeps the parser busy forever: every step of it leaves less to
\* do.  A "(" is worth the calls it makes.  Code: the loops and the recursion
\* of the Parser of unitree_joystick_dsl.hpp, which eat a token in each round.
Remaining ==
    4 * (Len(text) + 1 - pos) + Len(calls) + (IF stage \in {"unary", "return"} THEN 1 ELSE 0)
ParserEnds == [][Remaining' \in Nat /\ Remaining' < Remaining]_dslVars

\* unitree_joystick_dsl.hpp:23 says that .pressed after a hold changes
\* nothing.
PressedKeepsHold ==
    LET last == Len(text)
    IN stage = "parsed" /\ last > 5 /\ IsHold(text, 2, last - 1) /\ text[last] = "pressed"
           => value = Atom(text[1], "held", Seconds[text[3]])

=============================================================================

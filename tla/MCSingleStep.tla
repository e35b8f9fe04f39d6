---------------------------- MODULE MCSingleStep ----------------------------
EXTENDS SingleStep

MCDpads == {{}, {"up"}, {"left"}, {"up", "left"}}
=============================================================================

---- MODULE MCProgramLanes ----
EXTENDS ProgramLanes
Needs == {<<"r", "a">>}
====

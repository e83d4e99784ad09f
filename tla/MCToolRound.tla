------------------------------ MODULE MCToolRound ------------------------------
\* A small instance of ToolRound.
EXTENDS ToolRound

MCOwner == <<1, 2, 1, 3, 2>>
================================================================================

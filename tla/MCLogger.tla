------------------------------ MODULE MCLogger ------------------------------
EXTENDS Logger
=============================================================================

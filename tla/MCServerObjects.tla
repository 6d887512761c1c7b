--------------------------- MODULE MCServerObjects ---------------------------
\* TLC instance of ServerObjects; see its configurations for the constants.
EXTENDS ServerObjects
=============================================================================

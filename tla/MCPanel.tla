------------------------------- MODULE MCPanel -------------------------------
\* Small instances of Panel for TLC.
EXTENDS Panel

CONSTANTS a, b, c, l1, d1

\* Everything, or a search that finds two of three questions.
MCFilters == {{a, b, c}, {a, b}}

MCStored == <<a, b>>
=============================================================================

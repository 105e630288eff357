---------------------------- MODULE MCItemPages ----------------------------
(* A small catalogue for TLC.                                              *)
EXTENDS ItemPages

CONSTANTS Tools, Power

MCCategoryOf == <<Tools, Power, Tools, Tools, Power, Tools>>
=============================================================================

------------------------------- MODULE MCEntry -------------------------------
(* Two agents and two secrets; the entry is made by hand or by discovery.    *)
EXTENDS Entry, TLC

CONSTANTS butler, concierge, manual, discovered, old, new

=============================================================================

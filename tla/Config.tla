------------------------------- MODULE Config -------------------------------
(***************************************************************************)
(* pkg/config with the Default and Validate methods of the parts of a      *)
(* configuration.  A configuration gives every field a value; a document,  *)
(* of a file or of the environment, gives values to some.  The zero value  *)
(* of a field cannot be told from a missing one.                           *)
(***************************************************************************)
CONSTANTS
    Fields,    \* of the configuration and its parts
    Zero,      \* the zero value, whatever the type of a field is
    Fallback,  \* what Default puts in the place of a zero
    Required,  \* the fields that Validate wants to be set
    Environ    \* the document of the environment variables

ASSUME ConfigAssumption ==
    /\ DOMAIN Fallback = Fields
    /\ Required \subseteq Fields /\ DOMAIN Environ \subseteq Fields

(* Decoding a document changes the fields that it names.                   *)
Overlay(c, doc) == [f \in Fields |-> IF f \in DOMAIN doc THEN doc[f] ELSE c[f]]

Defaults(c) == [f \in Fields |-> IF c[f] = Zero THEN Fallback[f] ELSE c[f]]

Default == Defaults([f \in Fields |-> Zero])

Validate(c) == \A f \in Required: c[f] # Zero
=============================================================================

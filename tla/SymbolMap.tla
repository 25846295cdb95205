----------------------------- MODULE SymbolMap -----------------------------
(***************************************************************************)
(* What the symbol table of a scope promises to its only client, scope.c:  *)
(* a map from identifiers to frame members that is filled by insertions    *)
(* and never forgets.  An insertion of a name that is already there        *)
(* answers FALSE and changes nothing; a lookup answers the member that     *)
(* the first insertion of the name brought, or NoMember.                   *)
(*                                                                         *)
(* The hash table of symtbl.c (module Symtbl) implements this map.         *)
(***************************************************************************)
CONSTANTS
  Ident,        \* identifiers, equal when their bytes are (same_ident)
  Member,       \* the frame members bound to them
  NoMember      \* the answer NULL of a lookup

NotCalled == [ident |-> NoMember, member |-> NoMember]

VARIABLES
  entries,      \* the set of records [ident, member] in the map
  call,         \* the insertion in progress, NotCalled between insertions
  ret           \* the answer of the last call that returned

vars == <<entries, call, ret>>

Bound(k) == {r \in entries : r.ident = k}

Init ==
  /\ entries = {}
  /\ call = NotCalled
  /\ ret = TRUE

Call(k, m) ==
  /\ call = NotCalled
  /\ call' = [ident |-> k, member |-> m]
  /\ UNCHANGED <<entries, ret>>

Reject ==
  /\ call # NotCalled
  /\ Bound(call.ident) # {}
  /\ ret' = FALSE
  /\ call' = NotCalled
  /\ UNCHANGED entries

Accept ==
  /\ call # NotCalled
  /\ Bound(call.ident) = {}
  /\ entries' = entries \cup {call}
  /\ ret' = TRUE
  /\ call' = NotCalled

LookupHit(k) ==
  /\ call = NotCalled
  /\ \E r \in Bound(k) : ret' = r.member
  /\ UNCHANGED <<entries, call>>

LookupMiss(k) ==
  /\ call = NotCalled
  /\ Bound(k) = {}
  /\ ret' = NoMember
  /\ UNCHANGED <<entries, call>>

Next ==
  \/ \E k \in Ident, m \in Member : Call(k, m)
  \/ Reject
  \/ Accept
  \/ \E k \in Ident : LookupHit(k) \/ LookupMiss(k)

Spec == Init /\ [][Next]_vars
=============================================================================

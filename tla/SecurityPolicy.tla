--------------------------- MODULE SecurityPolicy ---------------------------
(***************************************************************************)
(* The security policy: the role each command requires, in a table of      *)
(* fixed size, and the states of the credentials.                          *)
(***************************************************************************)
EXTENDS Naturals

CONSTANTS
  Commands,    \* command names
  NoCommand,   \* the name of an unused entry
  TableSize    \* kCommandHandlerCapacity

ASSUME PolicyAssumption == NoCommand \notin Commands /\ TableSize \in Nat

Roles   == 0..2    \* guest, operator_role, administrator
Entries == 0..TableSize-1

VARIABLES
  authorizations,    \* authorizations_
  credential_state,  \* credential_state_
  required           \* history: the role of the last registration; 3: none

policyVars == <<authorizations, credential_state, required>>

PolicyInit ==
  /\ authorizations = [e \in Entries |-> [command |-> NoCommand, role |-> 2]]
  /\ credential_state = "unset"
  /\ required = [c \in Commands |-> 3]

-----------------------------------------------------------------------------
(* The first entry in a set of them, none or one. *)
First(entries) == { e \in entries : \A f \in entries : e <= f }

Of(c)  == { e \in Entries : authorizations[e].command = c }

(* Mutant of EntryFor: a new entry although there is one. *)
EntryForNew(c) == First(Of(NoCommand))

(* Where register_command writes: the command's entry, or a free one. *)
EntryFor(c) == IF Of(c) # {} THEN First(Of(c)) ELSE First(Of(NoCommand))

RegisterCommand(c, role) ==
  /\ EntryFor(c) # {}
  /\ \E e \in EntryFor(c) :
       authorizations' = [authorizations EXCEPT ![e] = [command |-> c, role |-> role]]
  /\ required' = [required EXCEPT ![c] = role]
  /\ UNCHANGED credential_state

(* authorize: the first entry of the command decides. *)
authorize(c, role) ==
  IF Of(c) = {} THEN "not_found"
  ELSE IF \E e \in First(Of(c)) : role >= authorizations[e].role THEN "ok" ELSE "denied"

SetCredentials(from, to) ==
  /\ credential_state \in from
  /\ credential_state' = to
  /\ UNCHANGED <<authorizations, required>>

CredentialStates == {"unset", "staged", "active", "rotating", "revoked"}

StageCredentials    == SetCredentials({"unset", "rotating"}, "staged")
ActivateCredentials == SetCredentials({"staged"}, "active")
BeginRotation       == SetCredentials(CredentialStates, "rotating")
RevokeCredentials   == SetCredentials(CredentialStates, "revoked")

PolicyNext ==
  \/ \E c \in Commands, role \in Roles : RegisterCommand(c, role)
  \/ StageCredentials \/ ActivateCredentials \/ BeginRotation \/ RevokeCredentials

PolicySpec == PolicyInit /\ [][PolicyNext]_policyVars

-----------------------------------------------------------------------------
(***************************************************************************)
(* A command registered again, with other commands between and a table     *)
(* that is full, is authorized by its latest role only: no older entry of  *)
(* it is left to be found first.  A command refused for lack of room stays *)
(* unknown.                                                                *)
(***************************************************************************)
LatestRoleDecides ==
  \A c \in Commands, role \in Roles :
    authorize(c, role) = IF required[c] = 3 THEN "not_found"
                         ELSE IF role >= required[c] THEN "ok" ELSE "denied"

=============================================================================

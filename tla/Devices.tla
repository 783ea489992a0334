------------------------------ MODULE Devices ------------------------------
(***************************************************************************)
(* Device profiles and the list of path tokens the resolvers accept        *)
(* (createDeviceProfile and deleteDeviceProfile of                         *)
(* panel/internal/api/devices.go; appendSettingList and removeSettingList  *)
(* of settings.go; getSettingList of revisions.go).                        *)
(*                                                                         *)
(* The list is one row of settings: a request reads it, changes its copy   *)
(* and writes the copy, in two statements of no transaction.  A profile is *)
(* known by the hash of its token; those without a token touch no list.    *)
(***************************************************************************)
EXTENDS Integers, FiniteSets

CONSTANTS
  Token,    \* hashes of path tokens; a random token is never drawn twice
  Editor,   \* requests in progress at once
  MaxFaults \* bound: failed statements and restarts of the panel

ASSUME DevicesAssumption == MaxFaults \in Nat

VARIABLES
  profiles, \* device_profiles, by token
  drawn,    \* tokens drawn so far
  tokens,   \* doh_path_tokens
  edit,     \* the requests in progress
  faults,   \* statements that failed and restarts so far
  astray    \* history: tokens whose requests failed or got into each other's way

devicesVars == <<profiles, drawn, tokens, edit, faults, astray>>

\* `adds': the request creates a profile; `list': its copy of the list.
NoEdit == [step |-> "idle", adds |-> FALSE, token |-> {}, list |-> {}]

DevicesTypeOK ==
  /\ profiles \subseteq drawn /\ drawn \subseteq Token
  /\ tokens \subseteq Token
  /\ edit \in [Editor -> [step : {"idle", "delete", "read", "write"}, adds : BOOLEAN,
                          token : SUBSET Token, list : SUBSET Token]]
  /\ faults \in 0..MaxFaults
  /\ astray \subseteq Token

DevicesInit ==
  /\ profiles = {} /\ drawn = {} /\ tokens = {}
  /\ edit = [e \in Editor |-> NoEdit]
  /\ faults = 0 /\ astray = {}
-----------------------------------------------------------------------------
Fault == faults < MaxFaults /\ faults' = faults + 1

\* createDeviceProfile: the profile with its token is inserted.
CreateProfile(e, t) ==
  /\ edit[e].step = "idle" /\ t \notin drawn
  /\ drawn' = drawn \cup {t}
  /\ profiles' = profiles \cup {t}
  /\ edit' = [edit EXCEPT ![e] = [NoEdit EXCEPT !.step = "read", !.adds = TRUE, !.token = {t}]]
  /\ UNCHANGED <<tokens, faults, astray>>

\* deleteDeviceProfile: the token of the profile is read ...
SelectHash(e, t) ==
  /\ edit[e].step = "idle" /\ t \in profiles
  /\ edit' = [edit EXCEPT ![e] = [NoEdit EXCEPT !.step = "delete", !.token = {t}]]
  /\ UNCHANGED <<profiles, drawn, tokens, faults, astray>>

\* ... and the profile deleted; when another request has deleted it, this one
\* is over.  Its creation may not have reached the list yet.
DeleteProfile(e) ==
  LET t == edit[e].token
  IN /\ edit[e].step = "delete"
     /\ edit' = [edit EXCEPT ![e] = IF t \subseteq profiles THEN [@ EXCEPT !.step = "read"] ELSE NoEdit]
     /\ profiles' = profiles \ t
     /\ astray' = astray \cup (IF \E d \in Editor : edit[d].adds /\ edit[d].token = t THEN t ELSE {})
     /\ UNCHANGED <<drawn, tokens, faults>>

\* A failed read of the token goes unnoticed: the profile is deleted and its
\* token stays in the list.
DeleteUnhashed(e) ==
  /\ Fault
  /\ edit[e].step = "delete"
  /\ edit' = [edit EXCEPT ![e] = NoEdit]
  /\ profiles' = profiles \ edit[e].token
  /\ astray' = astray \cup edit[e].token
  /\ UNCHANGED <<drawn, tokens>>

\* appendSettingList, removeSettingList: the list is read ...
ReadList(e) ==
  /\ edit[e].step = "read"
  /\ edit' = [edit EXCEPT ![e].step = "write", ![e].list = tokens]
  /\ UNCHANGED <<profiles, drawn, tokens, faults, astray>>

\* ... where getSettingList takes a failed read for an empty list ...
ReadNothing(e) ==
  /\ Fault
  /\ edit[e].step = "read"
  /\ edit' = [edit EXCEPT ![e].step = "write", ![e].list = {}]
  /\ astray' = astray \cup tokens
  /\ UNCHANGED <<profiles, drawn, tokens>>

\* Mutant: the other tokens are dropped with the one removed.
ChangedAll(e) == IF edit[e].adds THEN edit[e].list \cup edit[e].token ELSE {}

\* The request's copy with its change.
Changed(e) == IF edit[e].adds THEN edit[e].list \cup edit[e].token ELSE edit[e].list \ edit[e].token

\* ... and the changed copy written.  Requests that hold an older copy will
\* write that over it.
WriteList(e) ==
  /\ edit[e].step = "write"
  /\ tokens' = Changed(e)
  /\ edit' = [edit EXCEPT ![e] = NoEdit]
  /\ astray' = astray \cup (IF \E d \in Editor \ {e} : edit[d].step = "write" THEN edit[e].token ELSE {})
  /\ UNCHANGED <<profiles, drawn, faults>>

\* A statement fails: a profile created is not taken back, and a token not
\* removed stays.
EditFails(e) ==
  /\ Fault
  /\ edit[e].step # "idle"
  /\ edit' = [edit EXCEPT ![e] = NoEdit]
  /\ astray' = astray \cup (IF edit[e].step = "delete" THEN {} ELSE edit[e].token)
  /\ UNCHANGED <<profiles, drawn, tokens>>

\* The panel dies in the middle of its requests.
EditorsDie ==
  /\ Fault
  /\ edit' = [e \in Editor |-> NoEdit]
  /\ astray' = astray \cup UNION {edit[e].token : e \in {d \in Editor : edit[d].step # "delete"}}
  /\ UNCHANGED <<profiles, drawn, tokens>>

DevicesNext ==
  \/ \E e \in Editor : \/ DeleteProfile(e) \/ DeleteUnhashed(e) \/ ReadList(e) \/ ReadNothing(e)
                       \/ WriteList(e) \/ EditFails(e)
                       \/ \E t \in Token : CreateProfile(e, t) \/ SelectHash(e, t)
  \/ EditorsDie

DevicesSpec == DevicesInit /\ [][DevicesNext]_devicesVars
-----------------------------------------------------------------------------
\* Properties.

\* When no request is working on it, a token is accepted exactly as long as its
\* profile exists: a lost update, a failed statement or a dying panel harms the
\* tokens of the requests it hits and no other, except that a failed read of the
\* list may drop those that were in it.
TokensMatch ==
  \A t \in Token \ astray :
    (\A e \in Editor : t \notin edit[e].token) => (t \in tokens <=> t \in profiles)
=============================================================================

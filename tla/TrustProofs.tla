----------------------------- MODULE TrustProofs -----------------------------
(***************************************************************************)
(* Proofs about what the device trusts: the images it boots, the commands  *)
(* it carries out, and the credentials it keeps, that is, the update       *)
(* service, the security policy and the provisioning service.              *)
(***************************************************************************)
EXTENDS OtaService, SecurityPolicy, ProvisioningService, TLAPS

-----------------------------------------------------------------------------
(***************************************************************************)
(* The update service.  A download has the same blocks in the store and in *)
(* the digest, as many as it counts; what is ready to be activated is what *)
(* the manifest on hand describes.  The service never looks at the store   *)
(* again before it activates, so this has to hold of the state in between. *)
(***************************************************************************)
OtaTypeOK ==
  /\ manifest \in Manifests \cup {NoManifest}
  /\ received \in Nat
  /\ staged \in Seq(Blocks) /\ hashed \in Seq(Blocks)

ReadyIsVerified ==
  ota_state = "ready_to_activate" =>
    /\ manifest \in Manifests /\ manifest.signed
    /\ staged = manifest.digest /\ Len(staged) = manifest.size

OtaInv ==
  /\ OtaTypeOK
  /\ NoSessionLeaks
  /\ ota_state = "downloading" => manifest \in Manifests
  /\ ReadyIsVerified
  /\ OnlyVerifiedBoots

(* A failure leaves no session and nothing to activate. *)
LEMMA FailKeepsOtaInv ==
  ASSUME OtaInv, fail, staged' \in Seq(Blocks), hashed' \in Seq(Blocks)
  PROVE  OtaInv'
BY DEF OtaInv, OtaTypeOK, NoSessionLeaks, ReadyIsVerified, OnlyVerifiedBoots, fail

(* Chunks are sequences of blocks. *)
LEMMA ChunkIsSequence ==
  ASSUME NEW chunk \in Chunks
  PROVE  chunk \in Seq(Blocks)
<1>1. PICK n \in 0..kOtaChunk : chunk \in [1..n -> Blocks]
      BY DEF Chunks
<1>2. n \in Nat
      BY OtaAssumption
<1>3. QED
      BY <1>1, <1>2

(* A chunk that is appended lengthens the image by its own length. *)
LEMMA Appended ==
  ASSUME NEW image \in Seq(Blocks), NEW chunk \in Seq(Blocks)
  PROVE  /\ image \o chunk \in Seq(Blocks)
         /\ Len(image \o chunk) = Len(image) + Len(chunk)
OBVIOUS

LEMMA TakeChunkKeepsOtaInv ==
  ASSUME OtaInv, NEW chunk \in Chunks, TakeChunk(chunk)
  PROVE  OtaInv'
<1> DEFINE image == staged \o chunk
<1>1. /\ ota_state = "downloading" /\ manifest \in Manifests /\ staged = hashed
      /\ Len(staged) = received /\ session = "open" /\ received \in Nat
      /\ staged \in Seq(Blocks) /\ hashed \in Seq(Blocks)
      BY DEF OtaInv, OtaTypeOK, NoSessionLeaks, TakeChunk
<1>2. /\ image \in Seq(Blocks) /\ Len(image) = received + Len(chunk)
      /\ chunk \in Seq(Blocks) /\ Len(chunk) \in Nat
      BY <1>1, ChunkIsSequence, Appended
<1>3. manifest.size \in Nat
      BY <1>1, OtaAssumption
<1>4. CASE fail /\ staged' \in {staged, image} /\ UNCHANGED hashed
      BY <1>1, <1>2, <1>4, FailKeepsOtaInv
<1>5. CASE /\ staged' = image /\ hashed' = hashed \o chunk
           /\ received' = received + Len(chunk)
           /\ UNCHANGED <<ota_state, manifest, session, activated>>
      BY <1>1, <1>2, <1>5 DEF OtaInv, OtaTypeOK, NoSessionLeaks, ReadyIsVerified, OnlyVerifiedBoots
<1>6. CASE /\ staged' = image /\ hashed' = hashed \o chunk
           /\ received + Len(chunk) = manifest.size
           /\ Verified(hashed') /\ received' = manifest.size
           /\ ota_state' = "ready_to_activate" /\ session' = "finished"
           /\ UNCHANGED <<manifest, activated>>
      BY <1>1, <1>2, <1>3, <1>6
      DEF OtaInv, OtaTypeOK, NoSessionLeaks, ReadyIsVerified, OnlyVerifiedBoots, Verified
<1>7. CASE /\ staged' = image /\ hashed' = hashed \o chunk
           /\ received' = manifest.size
           /\ ota_state' = "failed" /\ session' = "none"
           /\ UNCHANGED <<manifest, activated>>
      BY <1>1, <1>2, <1>3, <1>7
      DEF OtaInv, OtaTypeOK, NoSessionLeaks, ReadyIsVerified, OnlyVerifiedBoots
<1>8. QED
      BY <1>1, <1>4, <1>5, <1>6, <1>7 DEF TakeChunk

LEMMA OtaStep == OtaInv /\ [OtaNext]_otaVars => OtaInv'
<1> SUFFICES ASSUME OtaInv, [OtaNext]_otaVars PROVE OtaInv'
    OBVIOUS
<1>t. staged \in Seq(Blocks) /\ hashed \in Seq(Blocks) /\ <<>> \in Seq(Blocks) /\ Len(<<>>) = 0
      BY DEF OtaInv, OtaTypeOK
<1> USE DEF OtaInv, OtaTypeOK, NoSessionLeaks, ReadyIsVerified, OnlyVerifiedBoots
<1>1. ASSUME NEW m \in Manifests, Offer(m) PROVE OtaInv'
  <2>1. CASE fail /\ staged' \in {staged, <<>>} /\ UNCHANGED hashed
        BY <1>t, <2>1, FailKeepsOtaInv
  <2>2. CASE /\ manifest' = m /\ received' = 0
             /\ ota_state' = "downloading" /\ session' = "open"
             /\ staged' = <<>> /\ hashed' = <<>> /\ UNCHANGED activated
        BY <1>t, <2>2
  <2>3. QED
        BY <1>1, <2>1, <2>2 DEF Offer
<1>2. CASE RequestChunk
  <2>1. CASE fail
        BY <1>2, <1>t, <2>1, FailKeepsOtaInv DEF RequestChunk
  <2>2. CASE ~fail
        BY <1>2, <2>2 DEF RequestChunk
  <2>3. QED
        BY <2>1, <2>2
<1>3. CASE TakeFails
      BY <1>3, <1>t, FailKeepsOtaInv DEF TakeFails
<1>4. CASE Activate
  <2>1. CASE fail
        BY <1>4, <1>t, <2>1, FailKeepsOtaInv DEF Activate
  <2>2. CASE /\ ota_state' = "activating"
             /\ activated' = [manifest |-> manifest, image |-> staged]
             /\ UNCHANGED <<manifest, received, session, staged, hashed>>
        BY <1>4, <1>t, <2>2 DEF Activate
  <2>3. QED
        BY <1>4, <2>1, <2>2 DEF Activate
<1>5. CASE Cancel
      BY <1>5, <1>t DEF Cancel
<1>6. ASSUME NEW chunk \in Chunks, TakeChunk(chunk) PROVE OtaInv'
      BY <1>6, TakeChunkKeepsOtaInv
<1>7. CASE UNCHANGED otaVars
      BY <1>7 DEF otaVars
<1>8. QED
      BY <1>1, <1>2, <1>3, <1>4, <1>5, <1>6, <1>7 DEF OtaNext

THEOREM OtaInvariant == OtaSpec => []OtaInv
<1>1. OtaInit => OtaInv
      BY DEF OtaInit, OtaInv, OtaTypeOK, NoSessionLeaks, ReadyIsVerified, OnlyVerifiedBoots
<1>2. QED
      BY <1>1, OtaStep, PTL DEF OtaSpec

(***************************************************************************)
(* Whatever the fetcher, the store and the digest answer, and whatever was *)
(* cancelled and offered before, OtaService activates only the image of a  *)
(* signed manifest, whole.                                                 *)
(***************************************************************************)
THEOREM OtaOnlyVerifiedBoots == OtaSpec => []OnlyVerifiedBoots
<1>1. OtaInv => OnlyVerifiedBoots
      BY DEF OtaInv
<1>2. QED
      BY <1>1, OtaInvariant, PTL

(***************************************************************************)
(* Every way out of an update closes the session of the firmware store,    *)
(* and a download writes and hashes the same blocks.                       *)
(***************************************************************************)
THEOREM OtaNoSessionLeaks == OtaSpec => []NoSessionLeaks
<1>1. OtaInv => NoSessionLeaks
      BY DEF OtaInv
<1>2. QED
      BY <1>1, OtaInvariant, PTL

-----------------------------------------------------------------------------
(***************************************************************************)
(* The security policy.  A command has at most one entry in the table, so  *)
(* that the first one is the only one, and it has the latest role.         *)
(***************************************************************************)
PolicyTypeOK ==
  /\ authorizations \in [Entries -> [command : Commands \cup {NoCommand}, role : Roles]]
  /\ required \in [Commands -> 0..3]

OneEntryEach ==
  \A c \in Commands : \A e, f \in Of(c) : e = f

EntryIsLatest ==
  \A c \in Commands :
    /\ Of(c) = {} <=> required[c] = 3
    /\ \A e \in Of(c) : authorizations[e].role = required[c]

PolicyInv == PolicyTypeOK /\ OneEntryEach /\ EntryIsLatest

LEMMA RegisterKeepsPolicyInv ==
  ASSUME PolicyInv, NEW c \in Commands, NEW role \in Roles, RegisterCommand(c, role)
  PROVE  PolicyInv'
<1>1. PICK e \in EntryFor(c) :
        authorizations' = [authorizations EXCEPT ![e] = [command |-> c, role |-> role]]
      BY DEF RegisterCommand
<1>2. /\ e \in Entries
      /\ Of(c) # {} => e \in Of(c)
      /\ Of(c) = {} => authorizations[e].command = NoCommand
      BY <1>1 DEF EntryFor, First, Of
<1>3. required' = [required EXCEPT ![c] = role]
      BY DEF RegisterCommand
<1>4. PolicyTypeOK'
      BY <1>1, <1>2, <1>3 DEF PolicyInv, PolicyTypeOK, Roles
(* The entry written is c's and the only one; the others stay as they are. *)
<1>5. Of(c)' = {e}
  <2>1. \A f \in Entries \ {e} : authorizations[f].command # c
        BY <1>2 DEF PolicyInv, OneEntryEach, Of
  <2>2. \A f \in Entries : authorizations'[f].command = c <=> f = e
        BY <1>1, <1>2, <2>1 DEF PolicyInv, PolicyTypeOK
  <2>3. QED
        BY <1>2, <2>2 DEF Of
<1>6. ASSUME NEW x \in Commands \ {c} PROVE Of(x)' = Of(x)
  <2>1. authorizations[e].command # x
        BY <1>2, PolicyAssumption DEF Of
  <2>2. \A f \in Entries : authorizations'[f].command = x <=> authorizations[f].command = x
        BY <1>1, <1>2, <2>1 DEF PolicyInv, PolicyTypeOK
  <2>3. QED
        BY <2>2 DEF Of
<1>7. OneEntryEach'
      BY <1>5, <1>6 DEF PolicyInv, OneEntryEach
<1>8. EntryIsLatest'
  <2> SUFFICES ASSUME NEW x \in Commands
               PROVE  /\ Of(x)' = {} <=> required'[x] = 3
                      /\ \A f \in Of(x)' : authorizations'[f].role = required'[x]
      BY DEF EntryIsLatest
  <2>1. CASE x = c
    <3>1. authorizations'[e].role = role /\ required'[c] = role /\ role # 3
          BY <1>1, <1>2, <1>3 DEF PolicyInv, PolicyTypeOK, Roles
    <3>2. QED
          BY <2>1, <3>1, <1>5
  <2>2. CASE x # c
    <3>1. required'[x] = required[x] /\ Of(x)' = Of(x)
          BY <2>2, <1>3, <1>6 DEF PolicyInv, PolicyTypeOK
    <3>2. e \notin Of(x)
          BY <2>2, <1>2, PolicyAssumption DEF Of
    <3>3. \A f \in Of(x) : authorizations'[f] = authorizations[f]
          BY <1>1, <3>2 DEF Of, PolicyInv, PolicyTypeOK
    <3>4. QED
          BY <3>1, <3>3 DEF PolicyInv, EntryIsLatest
  <2>3. QED
        BY <2>1, <2>2
<1>9. QED
      BY <1>4, <1>7, <1>8 DEF PolicyInv

LEMMA PolicyStep == PolicyInv /\ [PolicyNext]_policyVars => PolicyInv'
<1> SUFFICES ASSUME PolicyInv, [PolicyNext]_policyVars PROVE PolicyInv'
    OBVIOUS
<1>1. ASSUME NEW c \in Commands, NEW role \in Roles, RegisterCommand(c, role) PROVE PolicyInv'
      BY <1>1, RegisterKeepsPolicyInv
<1>2. CASE UNCHANGED <<authorizations, required>>
      BY <1>2 DEF PolicyInv, PolicyTypeOK, OneEntryEach, EntryIsLatest, Of
<1>3. QED
      BY <1>1, <1>2 DEF PolicyNext, StageCredentials, ActivateCredentials, BeginRotation,
                        RevokeCredentials, SetCredentials, policyVars

THEOREM PolicyInvariant == PolicySpec => []PolicyInv
<1>1. PolicyInit => PolicyInv
      BY PolicyAssumption
      DEF PolicyInit, PolicyInv, PolicyTypeOK, OneEntryEach, EntryIsLatest, Of, Roles
<1>2. QED
      BY <1>1, PolicyStep, PTL DEF PolicySpec

(***************************************************************************)
(* authorize decides by the role of the latest registration, for a table   *)
(* of any size, and refuses a command that found no room in it.            *)
(***************************************************************************)
THEOREM PolicyLatestRoleDecides == PolicySpec => []LatestRoleDecides
<1>1. PolicyInv => LatestRoleDecides
  <2> SUFFICES ASSUME PolicyInv, NEW c \in Commands, NEW role \in Roles
               PROVE  authorize(c, role) = IF required[c] = 3 THEN "not_found"
                                           ELSE IF role >= required[c] THEN "ok" ELSE "denied"
      BY DEF LatestRoleDecides
  <2>1. CASE Of(c) = {}
        BY <2>1 DEF PolicyInv, EntryIsLatest, authorize
  <2>2. CASE Of(c) # {}
    <3>1. PICK e : e \in Of(c)
          BY <2>2
    <3>2. Of(c) = {e} /\ e \in Int
          BY <3>1 DEF PolicyInv, OneEntryEach, Of, Entries
    <3>3. First(Of(c)) = {e}
          BY <3>2 DEF First
    <3>4. required[c] # 3 /\ authorizations[e].role = required[c]
          BY <2>2, <3>1 DEF PolicyInv, EntryIsLatest
    <3>5. QED
          BY <2>2, <3>3, <3>4 DEF authorize
  <2>3. QED
        BY <2>1, <2>2
<1>2. QED
      BY <1>1, PolicyInvariant, PTL

-----------------------------------------------------------------------------
(***************************************************************************)
(* The provisioning service.  Its two properties are inductive together,   *)
(* whatever the portal, the validator and the configuration answer.        *)
(***************************************************************************)
ProvInv == CredentialsAreWiped /\ ProvisionedIsStored

LEMMA ProvStep == ProvInv /\ [ProvNext]_<<now, provVars>> => ProvInv'
<1> SUFFICES ASSUME ProvInv, [ProvNext]_<<now, provVars>> PROVE ProvInv'
    OBVIOUS
<1> USE DEF ProvInv, CredentialsAreWiped, ProvisionedIsStored, configVars, historyVars
(* A failed attempt wipes the credentials and does not provision. *)
<1>f. ASSUME fail_attempt PROVE ProvInv'
      BY <1>f DEF fail_attempt
<1>s. ASSUME stop PROVE ProvInv'
      BY <1>s DEF stop
<1>1. CASE StartPortal \/ FactoryResetOk \/ FactoryResetFails \/ OtherCommit
      BY <1>1 DEF StartPortal, FactoryResetOk, FactoryResetFails, OtherCommit
<1>2. CASE StopPortal \/ \E d \in PollGaps : PollTimeout(d)
      BY <1>2, <1>s DEF StopPortal, PollTimeout
<1>3. ASSUME NEW d \in PollGaps, NEW c \in Credentials \cup {Wiped},
             \/ NothingTaken(d, c) \/ ValidationBusy(d, c) \/ ValidationFails(d, c)
             \/ NotStored(d, c) \/ Stored(d, c)
      PROVE  ProvInv'
  <2>1. CASE NothingTaken(d, c)
        BY <2>1 DEF NothingTaken
  <2>2. CASE ValidationBusy(d, c)
        BY <2>2 DEF ValidationBusy
  <2>3. CASE ValidationFails(d, c) \/ NotStored(d, c)
        BY <2>3, <1>f DEF ValidationFails, NotStored
  <2>4. CASE Stored(d, c)
        BY <2>4 DEF Stored
  <2>5. QED
        BY <1>3, <2>1, <2>2, <2>3, <2>4
<1>4. CASE UNCHANGED <<now, provVars>>
      BY <1>4 DEF provVars
<1>5. QED
      BY <1>1, <1>2, <1>3, <1>4 DEF ProvNext

THEOREM ProvInvariant == ProvSpec => []ProvInv
<1>1. ProvInit => ProvInv
      BY DEF ProvInit, ProvInv, CredentialsAreWiped, ProvisionedIsStored
<1>2. QED
      BY <1>1, ProvStep, PTL DEF ProvSpec

(***************************************************************************)
(* pending_ holds credentials only while the portal is open or they are    *)
(* being validated, on every way out of poll, stop and factory_reset.      *)
(***************************************************************************)
THEOREM ProvCredentialsAreWiped == ProvSpec => []CredentialsAreWiped
<1>1. ProvInv => CredentialsAreWiped
      BY DEF ProvInv
<1>2. QED
      BY <1>1, ProvInvariant, PTL

(***************************************************************************)
(* A provisioned device has in flash the credentials validated last,       *)
(* unless a factory reset could not commit.                                *)
(***************************************************************************)
THEOREM ProvProvisionedIsStored == ProvSpec => []ProvisionedIsStored
<1>1. ProvInv => ProvisionedIsStored
      BY DEF ProvInv
<1>2. QED
      BY <1>1, ProvInvariant, PTL

=============================================================================

----------------------------- MODULE OtaService -----------------------------
(***************************************************************************)
(* The update service: an offered manifest, chunks that go to the firmware *)
(* store and into a digest, and an image that may be activated once the    *)
(* digest and the signature are right.                                     *)
(*                                                                         *)
(* An image is a sequence of blocks, and its digest is the sequence: no    *)
(* collisions.  The fetcher is external and answers anything: the chunk of *)
(* a download that was cancelled, a shorter or a longer one, other blocks, *)
(* an error, or nothing for as long as it likes.  So do the store and the  *)
(* digest, whose calls may fail.                                           *)
(***************************************************************************)
EXTENDS Naturals, Sequences

CONSTANTS
  Blocks,       \* what a block may hold
  kOtaChunk,    \* the blocks of a chunk
  Manifests,    \* [size, digest, signed]: what may be offered
  NoManifest

ASSUME OtaAssumption ==
  /\ kOtaChunk \in Nat \ {0}
  /\ Manifests \subseteq [size : Nat \ {0}, digest : Seq(Blocks), signed : BOOLEAN]

VARIABLES
  ota_state,      \* state_
  manifest,       \* manifest_
  received,       \* received_
  chunk_wanted,   \* requested_
  session,        \* external: the store, "none", "open" or "finished"
  staged,         \* external: the blocks written
  hashed,         \* external: the blocks the digest has seen
  activated       \* history: the manifest and the image last activated

otaVars == <<ota_state, manifest, received, chunk_wanted, session, staged, hashed, activated>>

Chunks == UNION { [1..n -> Blocks] : n \in 0..kOtaChunk }

OtaInit ==
  /\ ota_state = "idle" /\ manifest = NoManifest
  /\ received = 0 /\ chunk_wanted = FALSE
  /\ session = "none" /\ staged = <<>> /\ hashed = <<>>
  /\ activated = [manifest |-> NoManifest, image |-> <<>>]

-----------------------------------------------------------------------------
(* Mutant of fail: the store is left as it is. *)
fail_open ==
  /\ ota_state' = "failed" /\ chunk_wanted' = FALSE
  /\ UNCHANGED <<session, manifest, received, activated>>

fail ==
  /\ session' = "none"
  /\ ota_state' = "failed" /\ chunk_wanted' = FALSE
  /\ UNCHANGED <<manifest, received, activated>>

Offer(m) ==
  /\ ota_state = "idle"
  /\ \/ /\ manifest' = m /\ received' = 0 /\ chunk_wanted' = FALSE
        /\ ota_state' = "downloading" /\ session' = "open"
        /\ staged' = <<>> /\ hashed' = <<>>
        /\ UNCHANGED activated
     \/ fail /\ staged' \in {staged, <<>>} /\ UNCHANGED hashed

(* poll() without a request out; a busy fetcher counts as asked. *)
RequestChunk ==
  /\ ota_state = "downloading" /\ ~chunk_wanted
  /\ \/ chunk_wanted' = TRUE /\ UNCHANGED <<ota_state, manifest, received, session, activated>>
     \/ fail
  /\ UNCHANGED <<staged, hashed>>

(* Mutant of Verified: a manifest without a signature is let through. *)
VerifiedDigest(image) == image = manifest.digest

Verified(image) == image = manifest.digest /\ manifest.signed

TooLong(chunk) == received + Len(chunk) > manifest.size

(* poll() with an answer of the fetcher: an error, or a chunk. *)
TakeFails ==
  /\ ota_state = "downloading" /\ chunk_wanted
  /\ fail
  /\ UNCHANGED <<staged, hashed>>

TakeChunk(chunk) ==
  /\ ota_state = "downloading" /\ chunk_wanted
  /\ IF chunk = <<>> \/ TooLong(chunk)
     THEN fail /\ UNCHANGED <<staged, hashed>>
     ELSE \/ fail /\ staged' \in {staged, staged \o chunk} /\ UNCHANGED hashed
          \/ /\ staged' = staged \o chunk /\ hashed' = hashed \o chunk
             /\ received + Len(chunk) < manifest.size
             /\ received' = received + Len(chunk) /\ chunk_wanted' = FALSE
             /\ UNCHANGED <<ota_state, manifest, session, activated>>
          \/ /\ staged' = staged \o chunk /\ hashed' = hashed \o chunk
             /\ received + Len(chunk) = manifest.size
             /\ Verified(hashed')
             /\ received' = manifest.size /\ chunk_wanted' = FALSE
             /\ ota_state' = "ready_to_activate" /\ session' = "finished"
             /\ UNCHANGED <<manifest, activated>>
          \/ /\ staged' = staged \o chunk /\ hashed' = hashed \o chunk
             /\ received + Len(chunk) = manifest.size
             /\ received' = manifest.size /\ chunk_wanted' = FALSE
             /\ ota_state' = "failed" /\ session' = "none"
             /\ UNCHANGED <<manifest, activated>>

Activate ==
  /\ ota_state = "ready_to_activate"
  /\ \/ /\ ota_state' = "activating"
        /\ activated' = [manifest |-> manifest, image |-> staged]
        /\ UNCHANGED <<manifest, received, chunk_wanted, session>>
     \/ fail
  /\ UNCHANGED <<staged, hashed>>

Cancel ==
  /\ session' = "none"
  /\ ota_state' = "idle" /\ received' = 0 /\ chunk_wanted' = FALSE
  /\ UNCHANGED <<manifest, staged, hashed, activated>>

OtaNext ==
  \/ RequestChunk \/ TakeFails \/ Activate \/ Cancel
  \/ \E m \in Manifests : Offer(m)
  \/ \E chunk \in Chunks : TakeChunk(chunk)

OtaSpec == OtaInit /\ [][OtaNext]_otaVars

-----------------------------------------------------------------------------
(***************************************************************************)
(* Whatever the fetcher answers, late, short, long or wrong, and whatever  *)
(* was cancelled and offered again before, the image that is activated is  *)
(* all of the image that a signed manifest describes.                      *)
(***************************************************************************)
OnlyVerifiedBoots ==
  activated.manifest # NoManifest =>
    /\ activated.manifest.signed
    /\ activated.image = activated.manifest.digest
    /\ Len(activated.image) = activated.manifest.size

(***************************************************************************)
(* Every way out of an update closes the session of the firmware store: an *)
(* idle or failed service holds none, and a download has one to write to.  *)
(***************************************************************************)
NoSessionLeaks ==
  /\ ota_state \in {"idle", "failed"} => session = "none"
  /\ ota_state = "downloading" => session = "open" /\ Len(staged) = received /\ staged = hashed

=============================================================================

------------------------------- MODULE Offer -------------------------------
(***************************************************************************)
(* check() and apply() in one task: the offer, the signing policy, the     *)
(* download, its TLS sessions and the status events.  What becomes of the  *)
(* image once the slot is switched is TrialInstall's.                      *)
(*                                                                         *)
(* An offer is what check() keeps of the answer.  Its signature is the key *)
(* that made it; deployment 0 is the empty string, id 0 no key id.         *)
(***************************************************************************)
EXTENDS Naturals, Sequences, FiniteSets

CONSTANTS
  Keys,         \* signing keys
  KeyIds,       \* key ids, numbers; 0 is none
  Deployments,  \* deployments, numbers; 0 is none
  NoKey,        \* not a key: a malformed PEM, a missing or unusable signature
  NoOffer,      \* no offer
  MaxReports    \* bound on report() calls between two checks

ASSUME KeysAssumption == NoKey \notin Keys
ASSUME DeploymentsAssumption == 0 \in KeyIds /\ 0 \in Deployments

VARIABLES
  keys,     \* _signingKeys and _signingKeyIds
  mode,     \* _securityMode
  offer,    \* the offer, NoOffer unless _hasOffer
  context,  \* _deploymentId
  waiting,  \* s_updateWaiting
  saved,    \* the deployment of the waiting update, NVS key sota_fail_dep
  pc,       \* the next step of apply(), "idle" outside
  tried,    \* keys of the verifier, {} without one
  session,  \* the download's connection is open
  update,   \* the Update object: "idle", "begun", "ended" once switched
  image,    \* the bytes downloaded: [intact |-> , genuine |-> ]
  result,   \* of the last apply()
  \* history
  insisted, \* a key has been pinned since the start
  offered,  \* deployment of the last offer
  events,   \* status events posted since the last check()
  installed \* the image switched to, as apply() knew it

policy   == <<keys, mode, insisted>>
download == <<tried, session, update, image>>
history  == <<offered, events, installed>>
vars == <<policy, offer, context, waiting, saved, pc, download, result, history>>

MaxSigningKeys == 2
None == [intact |-> FALSE, genuine |-> FALSE]
NotInstalled == [signer |-> NoKey, genuine |-> TRUE, required |-> FALSE,
                 pinned |-> {}, deployment |-> 0]

Offers == [https : BOOLEAN, signed : BOOLEAN, sig : Keys \cup {NoKey},
           keyId : KeyIds, deployment : Deployments]

PinnedKeys == [id : KeyIds, key : Keys]

\* "app" stands for the sketch's own events.
StatusEvents == [event : {"app", "download_started", "downloaded", "flashed", "validated",
                          "reboot", "failed"}, deployment : Deployments]

Pinned == {keys[i].key : i \in DOMAIN keys}

-----------------------------------------------------------------------------
Init ==
  /\ keys = <<>> /\ mode = "basic" /\ insisted = FALSE
  /\ offer = NoOffer /\ context = 0
  /\ waiting = FALSE /\ saved = 0
  /\ pc = "idle" /\ result = "none"
  /\ tried = {} /\ session = FALSE /\ update = "idle" /\ image = None
  /\ offered = 0 /\ events = <<>> /\ installed = NotInstalled

Idle == pc = "idle"
Insist == insisted' = (insisted \/ keys' # <<>>)

\* The sketch configures the client between calls.  A malformed PEM changes
\* nothing.
SetterWipes(pem) ==                                         \* mutant
  /\ Idle
  /\ keys' = IF pem = NoKey THEN <<>> ELSE <<[id |-> 0, key |-> pem]>>
  /\ Insist
  /\ UNCHANGED <<mode, offer, context, waiting, saved, pc, download, result, history>>
SetSigningPublicKey(pem) ==
  /\ Idle
  /\ keys' = IF pem = NoKey THEN keys ELSE <<[id |-> 0, key |-> pem]>>
  /\ Insist
  /\ UNCHANGED <<mode, offer, context, waiting, saved, pc, download, result, history>>

AddUnbounded(id, pem) ==                                    \* mutant
  /\ Idle
  /\ keys' = IF Len(keys) > MaxSigningKeys \/ pem = NoKey THEN keys
             ELSE Append(keys, [id |-> id, key |-> pem])
  /\ Insist
  /\ UNCHANGED <<mode, offer, context, waiting, saved, pc, download, result, history>>
AddSigningPublicKey(id, pem) ==
  /\ Idle
  /\ keys' = IF Len(keys) >= MaxSigningKeys \/ pem = NoKey THEN keys
             ELSE Append(keys, [id |-> id, key |-> pem])
  /\ Insist
  /\ UNCHANGED <<mode, offer, context, waiting, saved, pc, download, result, history>>

SetSecurityMode(m) ==
  /\ Idle
  /\ mode' = m
  /\ UNCHANGED <<keys, insisted, offer, context, waiting, saved, pc, download, result, history>>

-----------------------------------------------------------------------------
ClearOffer == offer' = NoOffer /\ context' = 0

\* A status event goes out with the deployment of the pending offer.
Posted(event, deployment) ==
  events' = Append(events, [event |-> event, deployment |-> deployment])

\* check(): the old offer is gone, whatever the server answers.  A signature
\* counts only in a signed offer.
Check ==
  /\ Idle
  /\ \/ ClearOffer /\ offered' = 0
     \/ \E o \in Offers :
          /\ ~o.signed => o.sig = NoKey
          /\ offer' = o /\ context' = o.deployment /\ offered' = o.deployment
  /\ events' = <<>>
  /\ UNCHANGED <<policy, waiting, saved, pc, download, result, installed>>

\* report(): only with a deployment to report for.
Report ==
  /\ Idle /\ context # 0
  /\ Cardinality({i \in DOMAIN events : events[i].event = "app"}) < MaxReports
  /\ Posted("app", context)
  /\ UNCHANGED <<policy, offer, context, waiting, saved, pc, download, result,
                 offered, installed>>

-----------------------------------------------------------------------------
\* apply()

Return(r) == pc' = "idle" /\ result' = r

\* The failure paths: abort the update, close the connection, and go on to
\* report.
Leaky(r) ==                                                 \* mutant
  /\ pc' = "failed" /\ result' = r
  /\ update' = "idle" /\ tried' = {}
  /\ UNCHANGED <<policy, offer, context, waiting, saved, session, image, history>>
Fail(r) ==
  /\ pc' = "failed" /\ result' = r
  /\ update' = "idle" /\ tried' = {} /\ session' = FALSE
  /\ UNCHANGED <<policy, offer, context, waiting, saved, image, history>>

\* Report the failure, then forget the offer.
KeepsOffer ==                                               \* mutant
  /\ pc = "failed" /\ pc' = "idle"
  /\ Posted("failed", context)
  /\ UNCHANGED <<policy, offer, context, waiting, saved, download, result, offered,
                 installed>>
ReportFailed ==
  /\ pc = "failed" /\ pc' = "idle"
  /\ Posted("failed", context)
  /\ ClearOffer
  /\ UNCHANGED <<policy, waiting, saved, download, result, offered, installed>>

\* The boot slot is taken while an update waits.  (The guard on a running
\* trial is Client's and TrialInstall's.)
ApplyRefused ==
  /\ Idle /\ (waiting \/ offer = NoOffer)
  /\ Return(IF waiting THEN "reboot_pending" ELSE "no_offer")
  /\ UNCHANGED <<policy, offer, context, waiting, saved, download, history>>

Apply ==
  /\ Idle /\ ~waiting /\ offer # NoOffer
  /\ IF ~offer.https THEN Fail("flash")
     ELSE pc' = "gate" /\ UNCHANGED <<policy, offer, context, waiting, saved,
                                      download, result, history>>

\* sotaSignedGate()
SignedGate(signedMode, numKeys, offerSigned, hasSignature) ==
  IF numKeys > 0 /\ (signedMode \/ offerSigned)
    THEN IF hasSignature THEN "verify" ELSE "fail_closed"
    ELSE IF offerSigned THEN "warn" ELSE "skip"

\* The first pinned key with the id the offer names, or else all of them.
FirstOnly(id) == {keys[1].key}                              \* mutant
VerifyKeys(id) ==
  LET named == {i \in DOMAIN keys : id # 0 /\ keys[i].id = id}
  IN  IF named = {} THEN Pinned
      ELSE {keys[i].key : i \in {k \in named : \A j \in named : k <= j}}

\* A verifier that can not be allocated fails closed, as a missing signature does.
Gate ==
  /\ pc = "gate"
  /\ LET gate == SignedGate(mode = "signed", Len(keys), offer.signed, offer.sig # NoKey)
     IN  \/ gate \in {"fail_closed", "verify"} /\ Fail("signature")
         \/ /\ gate # "fail_closed"
            /\ tried' = IF gate = "verify" THEN VerifyKeys(offer.keyId) ELSE {}
            /\ Posted("download_started", context)
            /\ pc' = "get"
            /\ UNCHANGED <<policy, offer, context, waiting, saved, session, update,
                           image, result, offered, installed>>

\* The connection is opened; the server answers 200, and the slot is begun.
Get ==
  /\ pc = "get"
  /\ \/ Fail("flash")
     \/ /\ session' = TRUE /\ pc' = "begin"
        /\ UNCHANGED <<policy, offer, context, waiting, saved, tried, update, image,
                       result, history>>

BeginUpdate ==
  /\ pc = "begin"
  /\ \/ Fail("flash")
     \/ /\ update' = "begun" /\ pc' = "loop"
        /\ UNCHANGED <<policy, offer, context, waiting, saved, tried, session, image,
                       result, history>>

\* The loop ends at the content length, when the connection closes, or with an
\* error; without a content length an early close is not noticed here.  What
\* has arrived may match the checksum, and may be what was signed.
Download ==
  /\ pc = "loop"
  /\ \/ Fail("flash")
     \/ /\ \E intact, genuine \in BOOLEAN :
             image' = [intact |-> intact, genuine |-> genuine]
        /\ session' = FALSE
        /\ pc' = "downloaded"
        /\ UNCHANGED <<policy, offer, context, waiting, saved, tried, update, result,
                       history>>

Downloaded ==
  /\ pc = "downloaded" /\ pc' = "checksum"
  /\ Posted("downloaded", context)
  /\ UNCHANGED <<policy, offer, context, waiting, saved, download, result, offered,
                 installed>>

Checksum ==
  /\ pc = "checksum"
  /\ IF ~image.intact THEN Fail("checksum")
     ELSE pc' = "verify" /\ UNCHANGED <<policy, offer, context, waiting, saved,
                                        download, result, history>>

\* SotaSignatureVerifier::final(): any of its keys.
Verified == image.genuine /\ offer.sig \in tried
Verify ==
  /\ pc = "verify"
  /\ IF tried # {} /\ ~Verified THEN Fail("signature")
     ELSE pc' = "stage" /\ UNCHANGED <<policy, offer, context, waiting, saved,
                                       download, result, history>>

\* stageTrialRecord(), or with rollback disabled nothing yet.
Stage ==
  /\ pc = "stage"
  /\ \/ Fail("flash")
     \/ /\ saved' \in {saved, context} /\ pc' = "switch"
        /\ UNCHANGED <<policy, offer, context, waiting, download, result, history>>

\* Update.end(), then saveConfirmContext() if the record has none.
Switch ==
  /\ pc = "switch"
  /\ \/ Fail("flash")
     \/ /\ update' = "ended" /\ waiting' = TRUE /\ saved' = context
        /\ installed' = [signer |-> offer.sig, genuine |-> image.genuine,
                         required |-> mode = "signed" /\ insisted,
                         pinned |-> Pinned, deployment |-> offered]
        /\ pc' = "flashed"
        /\ UNCHANGED <<policy, offer, context, tried, session, image, result,
                       offered, events>>

Flashed ==
  /\ pc = "flashed" /\ pc' = "validated"
  /\ Posted("flashed", context)
  /\ UNCHANGED <<policy, offer, context, waiting, saved, download, result, offered,
                 installed>>

\* The offer goes, its deployment stays for report() and "reboot".
Validated ==
  /\ pc = "validated"
  /\ Posted("validated", context)
  /\ offer' = NoOffer /\ tried' = {}
  /\ \/ Return("success")
     \/ pc' = "reboot" /\ UNCHANGED result
  /\ UNCHANGED <<policy, context, waiting, saved, session, update, image, offered,
                 installed>>

Reboot ==
  /\ pc = "reboot" /\ pc' = "restart"
  /\ Posted("reboot", context)
  /\ UNCHANGED <<policy, offer, context, waiting, saved, download, result, offered,
                 installed>>

\* rebootForUpdate(): for the update that waits, also after another check().
ReportsContext ==                                           \* mutant
  /\ Idle /\ pc' = "restart"
  /\ IF waiting /\ context # 0 THEN Posted("reboot", context) ELSE UNCHANGED events
  /\ UNCHANGED <<policy, offer, context, waiting, saved, download, result, offered,
                 installed>>
RebootForUpdate ==
  /\ Idle /\ pc' = "restart"
  /\ IF waiting /\ saved # 0 THEN Posted("reboot", saved) ELSE UNCHANGED events
  /\ UNCHANGED <<policy, offer, context, waiting, saved, download, result, offered,
                 installed>>

\* esp_restart(); what NVS holds is TrialInstall's.
Restart ==
  /\ pc = "restart"
  /\ keys' = <<>> /\ mode' = "basic" /\ insisted' = FALSE
  /\ ClearOffer /\ waiting' = FALSE /\ saved' = 0
  /\ pc' = "idle" /\ result' = "none"
  /\ tried' = {} /\ session' = FALSE /\ update' = "idle" /\ image' = None
  /\ offered' = 0 /\ events' = <<>> /\ installed' = NotInstalled

-----------------------------------------------------------------------------
Configure ==
  \/ \E pem \in Keys \cup {NoKey} :
       SetSigningPublicKey(pem) \/ \E id \in KeyIds : AddSigningPublicKey(id, pem)
  \/ \E m \in {"basic", "signed"} : SetSecurityMode(m)

Applying ==
  Apply \/ Gate \/ Get \/ BeginUpdate \/ Download \/ Downloaded \/ Checksum \/ Verify
  \/ Stage \/ Switch \/ Flashed \/ Validated \/ Reboot \/ ReportFailed

Next ==
  Configure \/ Check \/ Report \/ ApplyRefused \/ Applying \/ RebootForUpdate \/ Restart

Spec == Init /\ [][Next]_vars

-----------------------------------------------------------------------------
\* The types of the variables.
TypeOK ==
  /\ keys \in Seq(PinnedKeys) /\ Len(keys) <= MaxSigningKeys
  /\ mode \in {"basic", "signed"} /\ insisted \in BOOLEAN
  /\ offer \in Offers \cup {NoOffer}
  /\ context \in Deployments /\ saved \in Deployments /\ offered \in Deployments
  /\ waiting \in BOOLEAN /\ session \in BOOLEAN
  /\ pc \in {"idle", "gate", "get", "begin", "loop", "downloaded", "checksum", "verify",
            "stage", "switch", "flashed", "validated", "reboot", "restart", "failed"}
  /\ tried \subseteq Keys
  /\ update \in {"idle", "begun", "ended"}
  /\ image \in [intact : BOOLEAN, genuine : BOOLEAN]
  /\ result \in {"none", "success", "no_offer", "reboot_pending", "flash", "checksum",
                "signature"}
  /\ events \in Seq(StatusEvents)
  /\ installed \in [signer : Keys \cup {NoKey}, genuine : BOOLEAN, required : BOOLEAN,
                   pinned : SUBSET Keys, deployment : Deployments]

\* Once the sketch has pinned a key, a device in signed mode switches only to
\* an image signed by one of its keys: whatever the offer says of itself, and
\* whatever else the sketch has set since, malformed keys included.
SignedOnly ==
  installed.required => installed.genuine /\ installed.signer \in installed.pinned

\* A genuine image is not refused for its signature while a key is rotated:
\* not when the offer names no key, a key the device does not know, or its
\* signer, unless two keys share that id.
RotationVerifies ==
  [][pc = "verify" /\ pc' = "failed" =>
       ~ /\ image.genuine
         /\ \E i \in DOMAIN keys :
              /\ keys[i].key = offer.sig
              /\ \A j \in DOMAIN keys :
                   offer.keyId # 0 /\ keys[j].id = offer.keyId => i = j]_vars

\* No status event and no check() goes out while the download's connection is
\* open: the heap has no room for a second TLS session.
OneSession == [][events' # events => ~session]_vars

\* Every offer has at most one outcome, also when apply() is called again.
OneOutcome ==
  Cardinality({i \in DOMAIN events : events[i].event \in {"failed", "flashed"}}) <= 1

\* An event names the deployment it is about: "reboot" the one the waiting
\* image came with, also after another check(), the others that of the last
\* offer, also when apply() has already forgotten it.
EventsNameTheirs ==
  \A i \in DOMAIN events :
    IF events[i].event = "reboot"
      THEN waiting /\ events[i].deployment = installed.deployment
      ELSE events[i].deployment = offered
=============================================================================

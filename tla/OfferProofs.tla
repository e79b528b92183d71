---------------------------- MODULE OfferProofs ----------------------------
(***************************************************************************)
(* The signing policy, the events and the TLS sessions of check() and      *)
(* apply(), for any keys, ids and deployments.                             *)
(*                                                                         *)
(* Each part of IInv says what holds at a place of apply().  Policy is     *)
(* what SignedOnly and RotationVerifies stand on: the verifier has the     *)
(* keys the offer calls for, from the gate to the switch, and beyond the   *)
(* check only with a signature of one of them.  Naming is what an event's  *)
(* deployment stands on: _deploymentId outlives the offer.                 *)
(***************************************************************************)
EXTENDS Offer, FiniteSetTheorems, TLAPS

Downloading == {"get", "begin", "loop", "downloaded", "checksum", "verify", "stage",
                "switch"}
Pursuing    == {"gate", "flashed", "validated"} \cup Downloading

\* apply() works on an offer, with no update waiting before the switch.
Pursuit ==
  /\ pc \in Pursuing => offer \in Offers
  /\ pc \in {"gate", "failed"} \cup Downloading => ~waiting
  /\ pc \in {"flashed", "validated", "reboot"} => waiting

Connected == session => pc \in {"begin", "loop"}

Insists == insisted => keys # <<>>

\* The keys the offer calls for.
Called == VerifyKeys(offer.keyId)

Policy ==
  /\ pc \in Downloading =>
       \/ tried = Called
       \/ tried = {} /\ ~(mode = "signed" /\ keys # <<>>)
  /\ pc \in {"stage", "switch"} /\ tried # {} => Verified

Naming ==
  /\ context # 0 \/ offer # NoOffer \/ pc \in {"failed", "reboot"} \cup Pursuing
       => context = offered
  /\ waiting => saved = installed.deployment
  /\ pc \in {"flashed", "validated", "reboot"} => installed.deployment = offered

Outcomes == {i \in DOMAIN events : events[i].event \in {"failed", "flashed"}}

\* No outcome yet of an offer that is still there.
Outcome ==
  /\ pc \in {"gate", "failed", "flashed"} \cup Downloading => Outcomes = {}
  /\ pc = "idle" /\ offer # NoOffer => Outcomes = {}
  /\ \A i, j \in Outcomes : i = j

IInv ==
  /\ TypeOK /\ Pursuit /\ Connected /\ Insists /\ Policy /\ SignedOnly
  /\ Naming /\ EventsNameTheirs /\ Outcome

-----------------------------------------------------------------------------
\* The keys the verifier gets.

\* There are some if any is pinned, and they are pinned.
LEMMA VerifyKeysPinned ==
  ASSUME TypeOK, NEW id PROVE /\ VerifyKeys(id) \subseteq Pinned
                              /\ keys # <<>> => VerifyKeys(id) # {}
<1> DEFINE named == {i \in DOMAIN keys : id # 0 /\ keys[i].id = id}
<1>1. DOMAIN keys \subseteq {1, 2} /\ (keys # <<>> => 1 \in DOMAIN keys)
  BY DEF TypeOK, MaxSigningKeys
<1>2. VerifyKeys(id) \subseteq Pinned
  BY DEF VerifyKeys, Pinned
<1>3. CASE named = {}
  BY <1>1, <1>2, <1>3 DEF VerifyKeys, Pinned
<1>4. CASE named # {}
  <2>1. PICK k \in named : \A j \in named : k <= j
    <3>1. CASE 1 \in named
      BY <1>1, <3>1
    <3>2. CASE 1 \notin named
      BY <1>1, <1>4, <3>2
    <3>3. QED
      BY <3>1, <3>2
  <2>2. keys[k].key \in VerifyKeys(id)
    BY <1>4, <2>1 DEF VerifyKeys
  <2>3. QED
    BY <1>2, <2>2
<1>5. QED
  BY <1>3, <1>4

\* The key of the signer is among them unless the id names another key too.
LEMMA VerifyKeysSigner ==
  ASSUME TypeOK, NEW id, NEW i \in DOMAIN keys,
         \A j \in DOMAIN keys : id # 0 /\ keys[j].id = id => i = j
  PROVE  keys[i].key \in VerifyKeys(id)
<1> DEFINE named == {k \in DOMAIN keys : id # 0 /\ keys[k].id = id}
<1>1. i \in Nat
  BY DEF TypeOK
<1>2. CASE named = {}
  BY <1>2 DEF VerifyKeys, Pinned
<1>3. CASE named # {}
  <2>1. named = {i}
    BY <1>3
  <2>2. i \in {k \in named : \A j \in named : k <= j}
    BY <1>1, <2>1
  <2>3. QED
    BY <1>3, <2>2 DEF VerifyKeys
<1>4. QED
  BY <1>2, <1>3

-----------------------------------------------------------------------------
Kinds     == {"app", "download_started", "downloaded", "flashed", "validated", "reboot",
              "failed"}
Image     == [intact : BOOLEAN, genuine : BOOLEAN]
Installed == [signer : Keys \cup {NoKey}, genuine : BOOLEAN, required : BOOLEAN,
              pinned : SUBSET Keys, deployment : Deployments]

LEMMA PinnedType == TypeOK => Pinned \subseteq Keys
<1> SUFFICES ASSUME TypeOK, NEW i \in DOMAIN keys PROVE keys[i].key \in Keys
  BY DEF Pinned
<1>1. keys[i] \in PinnedKeys
  BY DEF TypeOK
<1>2. QED
  BY <1>1 DEF PinnedKeys

LEMMA PostedType ==
  ASSUME TypeOK, NEW e \in Kinds, NEW d \in Deployments, Posted(e, d)
  PROVE  events' \in Seq(StatusEvents)
<1>1. [event |-> e, deployment |-> d] \in StatusEvents
  BY DEF StatusEvents, Kinds
<1>2. events \in Seq(StatusEvents)
  BY DEF TypeOK
<1>3. QED
  BY <1>1, <1>2 DEF Posted

\* Each part of IInv is kept by every step.

LEMMA InitIInv == Init => IInv
<1> SUFFICES ASSUME Init PROVE IInv
  OBVIOUS
<1>1. keys \in Seq(PinnedKeys) /\ Len(keys) <= MaxSigningKeys
  BY DEF Init, MaxSigningKeys
<1>2. events \in Seq(StatusEvents)
  BY DEF Init
<1>3. installed \in Installed
  BY DeploymentsAssumption DEF Init, Installed, NotInstalled
<1>4. image \in Image
  BY DEF Init, Image, None
<1>5. TypeOK
  BY <1>1, <1>2, <1>3, <1>4, DeploymentsAssumption
  DEF Init, TypeOK, Installed, Image
<1>6. QED
  BY <1>5 DEF Init, IInv, Pursuit, Connected, Insists, Policy, SignedOnly, Naming,
     EventsNameTheirs, Outcome, Outcomes, Pursuing, Downloading, NotInstalled, None

LEMMA StepTypeOK == TypeOK /\ Pursuit /\ [Next]_vars => TypeOK'
<1> SUFFICES ASSUME TypeOK, Pursuit, [Next]_vars PROVE TypeOK'
  OBVIOUS
<1>a. \A e \in Kinds, d \in Deployments : Posted(e, d) => events' \in Seq(StatusEvents)
  BY PostedType
<1>b. \A id : VerifyKeys(id) \subseteq Keys
  BY VerifyKeysPinned, PinnedType
<1>c. Pinned \subseteq Keys
  BY PinnedType
<1> USE DEF TypeOK, policy, download, history, Idle, MaxSigningKeys
<1>1. ASSUME NEW pem \in Keys \cup {NoKey}, SetSigningPublicKey(pem)
      PROVE  TypeOK'
  <2>1. keys' \in Seq(PinnedKeys) /\ Len(keys') <= MaxSigningKeys
    <3>1. CASE pem = NoKey
      BY <1>1, <3>1 DEF SetSigningPublicKey
    <3>2. CASE pem # NoKey
      <4>1. [id |-> 0, key |-> pem] \in PinnedKeys
        BY <3>2, DeploymentsAssumption DEF PinnedKeys
      <4>2. QED
        BY <1>1, <3>2, <4>1 DEF SetSigningPublicKey
    <3>3. QED
      BY <3>1, <3>2
  <2>2. QED
    BY <1>1, <2>1 DEF SetSigningPublicKey, Insist
<1>2. ASSUME NEW pem \in Keys \cup {NoKey}, NEW id \in KeyIds,
             AddSigningPublicKey(id, pem)
      PROVE  TypeOK'
  <2>1. keys' \in Seq(PinnedKeys) /\ Len(keys') <= MaxSigningKeys
    <3>1. CASE Len(keys) >= MaxSigningKeys \/ pem = NoKey
      BY <1>2, <3>1 DEF AddSigningPublicKey
    <3>2. CASE ~(Len(keys) >= MaxSigningKeys \/ pem = NoKey)
      <4>1. [id |-> id, key |-> pem] \in PinnedKeys
        BY <3>2 DEF PinnedKeys
      <4>2. QED
        BY <1>2, <3>2, <4>1 DEF AddSigningPublicKey
    <3>3. QED
      BY <3>1, <3>2
  <2>2. QED
    BY <1>2, <2>1 DEF AddSigningPublicKey, Insist
<1>3. ASSUME NEW m \in {"basic", "signed"}, SetSecurityMode(m)
      PROVE  TypeOK'
  BY <1>3 DEF SetSecurityMode
<1>4. CASE Check
  <2>1. events' \in Seq(StatusEvents)
    BY <1>4 DEF Check
  <2>2. offer' \in Offers \cup {NoOffer} /\ context' \in Deployments
        /\ offered' \in Deployments
    BY <1>4, DeploymentsAssumption DEF Check, ClearOffer, Offers
  <2>3. QED
    BY <1>4, <2>1, <2>2 DEF Check
<1>5. CASE Report
  <2>1. events' \in Seq(StatusEvents)
    BY <1>5, <1>a DEF Report, Kinds
  <2>2. QED
    BY <1>5, <2>1 DEF Report
<1>6. CASE ApplyRefused
  BY <1>6 DEF ApplyRefused, Return
<1>7. CASE Apply
  BY <1>7 DEF Apply, Fail
<1>8. CASE Gate
  <2>1. CASE Fail("signature")
    BY <2>1 DEF Fail
  <2>2. CASE Posted("download_started", context) /\ pc' = "get"
    <3>1. events' \in Seq(StatusEvents)
      BY <2>2, <1>a DEF Kinds
    <3>2. tried' \subseteq Keys
      BY <1>8, <2>2, <1>b DEF Gate, Fail
    <3>3. QED
      BY <1>8, <2>2, <3>1, <3>2 DEF Gate, Fail
  <2>3. QED
    BY <1>8, <2>1, <2>2 DEF Gate
<1>9. CASE Get
  BY <1>9 DEF Get, Fail
<1>10. CASE BeginUpdate
  BY <1>10 DEF BeginUpdate, Fail
<1>11. CASE Download
  <2>1. image' \in Image
    BY <1>11 DEF Download, Fail, Image
  <2>2. QED
    BY <1>11, <2>1 DEF Download, Fail, Image
<1>12. CASE Downloaded
  <2>1. events' \in Seq(StatusEvents)
    BY <1>12, <1>a DEF Downloaded, Kinds
  <2>2. QED
    BY <1>12, <2>1 DEF Downloaded
<1>13. CASE Checksum
  BY <1>13 DEF Checksum, Fail
<1>14. CASE Verify
  BY <1>14 DEF Verify, Fail
<1>15. CASE Stage
  BY <1>15 DEF Stage, Fail
<1>16. CASE Switch
  <2>1. offer \in Offers
    BY <1>16 DEF Switch, Pursuit, Pursuing, Downloading
  <2>2. installed' \in Installed
    <3>1. offer.sig \in Keys \cup {NoKey} /\ image.genuine \in BOOLEAN
      BY <2>1 DEF Offers
    <3>2. (mode = "signed" /\ insisted) \in BOOLEAN
      OBVIOUS
    <3>3. CASE UNCHANGED installed
      BY <3>3 DEF Installed
    <3>4. CASE installed' = [signer |-> offer.sig, genuine |-> image.genuine,
                             required |-> mode = "signed" /\ insisted,
                             pinned |-> Pinned, deployment |-> offered]
      BY <3>1, <3>2, <3>4, <1>c DEF Installed
    <3>5. QED
      BY <1>16, <3>3, <3>4 DEF Switch, Fail
  <2>3. QED
    BY <1>16, <2>2 DEF Switch, Fail, Installed
<1>17. CASE Flashed
  <2>1. events' \in Seq(StatusEvents)
    BY <1>17, <1>a DEF Flashed, Kinds
  <2>2. QED
    BY <1>17, <2>1 DEF Flashed
<1>18. CASE Validated
  <2>1. events' \in Seq(StatusEvents)
    BY <1>18, <1>a DEF Validated, Return, Kinds
  <2>2. QED
    BY <1>18, <2>1 DEF Validated, Return
<1>19. CASE Reboot
  <2>1. events' \in Seq(StatusEvents)
    BY <1>19, <1>a DEF Reboot, Kinds
  <2>2. QED
    BY <1>19, <2>1 DEF Reboot
<1>20. CASE ReportFailed
  <2>1. events' \in Seq(StatusEvents)
    BY <1>20, <1>a DEF ReportFailed, ClearOffer, Kinds
  <2>2. QED
    BY DeploymentsAssumption, <1>20, <2>1 DEF ReportFailed, ClearOffer
<1>21. CASE RebootForUpdate
  <2>1. events' \in Seq(StatusEvents)
    BY <1>21, <1>a DEF Kinds, RebootForUpdate
  <2>2. QED
    BY <1>21, <2>1 DEF RebootForUpdate
<1>22. CASE Restart
  <2>1. keys' \in Seq(PinnedKeys) /\ Len(keys') <= MaxSigningKeys
    BY <1>22 DEF Restart
  <2>2. events' \in Seq(StatusEvents)
    BY <1>22 DEF Restart
  <2>3. installed' \in Installed /\ image' \in Image
    BY <1>22, DeploymentsAssumption DEF Restart, Installed, NotInstalled, Image, None
  <2>4. QED
    BY <1>22, <2>1, <2>2, <2>3, DeploymentsAssumption
    DEF Restart, ClearOffer, Installed, Image
<1>23. CASE UNCHANGED vars
  BY <1>23 DEF vars
<1>24. QED
  BY <1>1, <1>2, <1>3, <1>4, <1>5, <1>6, <1>7, <1>8, <1>9, <1>10, <1>11, <1>12,
     <1>13, <1>14, <1>15, <1>16, <1>17, <1>18, <1>19, <1>20, <1>21, <1>22, <1>23
  DEF Next, Configure, Applying

LEMMA StepPursuit == TypeOK /\ Pursuit /\ [Next]_vars => Pursuit'
<1> SUFFICES ASSUME TypeOK, Pursuit, [Next]_vars PROVE Pursuit'
  OBVIOUS
<1> USE DEF TypeOK, policy, download, history, Idle, Pursuit, Pursuing, Downloading
<1>1. ASSUME NEW pem \in Keys \cup {NoKey}, SetSigningPublicKey(pem)
      PROVE  Pursuit'
  BY <1>1 DEF SetSigningPublicKey, Insist
<1>2. ASSUME NEW pem \in Keys \cup {NoKey}, NEW id \in KeyIds,
             AddSigningPublicKey(id, pem)
      PROVE  Pursuit'
  BY <1>2 DEF AddSigningPublicKey, Insist
<1>3. ASSUME NEW m \in {"basic", "signed"}, SetSecurityMode(m)
      PROVE  Pursuit'
  BY <1>3 DEF SetSecurityMode
<1>4. CASE Check
  BY <1>4 DEF Check, ClearOffer
<1>5. CASE Report
  BY <1>5 DEF Report, Posted
<1>6. CASE ApplyRefused
  BY <1>6 DEF ApplyRefused, Return
<1>7. CASE Apply
  BY <1>7 DEF Apply, Fail
<1>8. CASE Gate
  BY <1>8 DEF Gate, Fail, Posted
<1>9. CASE Get
  BY <1>9 DEF Get, Fail
<1>10. CASE BeginUpdate
  BY <1>10 DEF BeginUpdate, Fail
<1>11. CASE Download
  BY <1>11 DEF Download, Fail
<1>12. CASE Downloaded
  BY <1>12 DEF Downloaded, Posted
<1>13. CASE Checksum
  BY <1>13 DEF Checksum, Fail
<1>14. CASE Verify
  BY <1>14 DEF Verify, Fail
<1>15. CASE Stage
  BY <1>15 DEF Stage, Fail
<1>16. CASE Switch
  BY <1>16 DEF Switch, Fail
<1>17. CASE Flashed
  BY <1>17 DEF Flashed, Posted
<1>18. CASE Validated
  BY <1>18 DEF Validated, Return, Posted
<1>19. CASE Reboot
  BY <1>19 DEF Reboot, Posted
<1>20. CASE ReportFailed
  BY <1>20 DEF ReportFailed, Posted, ClearOffer
<1>21. CASE RebootForUpdate
  BY <1>21 DEF RebootForUpdate, Posted
<1>22. CASE Restart
  BY <1>22 DEF Restart, ClearOffer
<1>23. CASE UNCHANGED vars
  BY <1>23 DEF vars
<1>24. QED
  BY <1>1, <1>2, <1>3, <1>4, <1>5, <1>6, <1>7, <1>8, <1>9, <1>10, <1>11, <1>12,
     <1>13, <1>14, <1>15, <1>16, <1>17, <1>18, <1>19, <1>20, <1>21, <1>22, <1>23
  DEF Next, Configure, Applying

LEMMA StepConnected == Connected /\ [Next]_vars => Connected'
<1> SUFFICES ASSUME Connected, [Next]_vars PROVE Connected'
  OBVIOUS
<1> USE DEF policy, download, history, Idle, Connected
<1>1. ASSUME NEW pem \in Keys \cup {NoKey}, SetSigningPublicKey(pem)
      PROVE  Connected'
  BY <1>1 DEF SetSigningPublicKey, Insist
<1>2. ASSUME NEW pem \in Keys \cup {NoKey}, NEW id \in KeyIds,
             AddSigningPublicKey(id, pem)
      PROVE  Connected'
  BY <1>2 DEF AddSigningPublicKey, Insist
<1>3. ASSUME NEW m \in {"basic", "signed"}, SetSecurityMode(m)
      PROVE  Connected'
  BY <1>3 DEF SetSecurityMode
<1>4. CASE Check
  BY <1>4 DEF Check, ClearOffer
<1>5. CASE Report
  BY <1>5 DEF Report, Posted
<1>6. CASE ApplyRefused
  BY <1>6 DEF ApplyRefused, Return
<1>7. CASE Apply
  BY <1>7 DEF Apply, Fail
<1>8. CASE Gate
  BY <1>8 DEF Gate, Fail, Posted
<1>9. CASE Get
  BY <1>9 DEF Get, Fail
<1>10. CASE BeginUpdate
  BY <1>10 DEF BeginUpdate, Fail
<1>11. CASE Download
  BY <1>11 DEF Download, Fail
<1>12. CASE Downloaded
  BY <1>12 DEF Downloaded, Posted
<1>13. CASE Checksum
  BY <1>13 DEF Checksum, Fail
<1>14. CASE Verify
  BY <1>14 DEF Verify, Fail
<1>15. CASE Stage
  BY <1>15 DEF Stage, Fail
<1>16. CASE Switch
  BY <1>16 DEF Switch, Fail
<1>17. CASE Flashed
  BY <1>17 DEF Flashed, Posted
<1>18. CASE Validated
  BY <1>18 DEF Validated, Return, Posted
<1>19. CASE Reboot
  BY <1>19 DEF Reboot, Posted
<1>20. CASE ReportFailed
  BY <1>20 DEF ReportFailed, Posted, ClearOffer
<1>21. CASE RebootForUpdate
  BY <1>21 DEF RebootForUpdate, Posted
<1>22. CASE Restart
  BY <1>22 DEF Restart, ClearOffer
<1>23. CASE UNCHANGED vars
  BY <1>23 DEF vars
<1>24. QED
  BY <1>1, <1>2, <1>3, <1>4, <1>5, <1>6, <1>7, <1>8, <1>9, <1>10, <1>11, <1>12,
     <1>13, <1>14, <1>15, <1>16, <1>17, <1>18, <1>19, <1>20, <1>21, <1>22, <1>23
  DEF Next, Configure, Applying

LEMMA StepInsists == TypeOK /\ Insists /\ [Next]_vars => Insists'
<1> SUFFICES ASSUME TypeOK, Insists, [Next]_vars PROVE Insists'
  OBVIOUS
<1> USE DEF TypeOK, policy, download, history, Idle, Insists
<1>1. ASSUME NEW pem \in Keys \cup {NoKey}, SetSigningPublicKey(pem)
      PROVE  Insists'
  BY <1>1 DEF SetSigningPublicKey, Insist
<1>2. ASSUME NEW pem \in Keys \cup {NoKey}, NEW id \in KeyIds,
             AddSigningPublicKey(id, pem)
      PROVE  Insists'
  BY <1>2 DEF AddSigningPublicKey, Insist
<1>3. ASSUME NEW m \in {"basic", "signed"}, SetSecurityMode(m)
      PROVE  Insists'
  BY <1>3 DEF SetSecurityMode
<1>4. CASE Check
  BY <1>4 DEF Check, ClearOffer
<1>5. CASE Report
  BY <1>5 DEF Report, Posted
<1>6. CASE ApplyRefused
  BY <1>6 DEF ApplyRefused, Return
<1>7. CASE Apply
  BY <1>7 DEF Apply, Fail
<1>8. CASE Gate
  BY <1>8 DEF Gate, Fail, Posted
<1>9. CASE Get
  BY <1>9 DEF Get, Fail
<1>10. CASE BeginUpdate
  BY <1>10 DEF BeginUpdate, Fail
<1>11. CASE Download
  BY <1>11 DEF Download, Fail
<1>12. CASE Downloaded
  BY <1>12 DEF Downloaded, Posted
<1>13. CASE Checksum
  BY <1>13 DEF Checksum, Fail
<1>14. CASE Verify
  BY <1>14 DEF Verify, Fail
<1>15. CASE Stage
  BY <1>15 DEF Stage, Fail
<1>16. CASE Switch
  BY <1>16 DEF Switch, Fail
<1>17. CASE Flashed
  BY <1>17 DEF Flashed, Posted
<1>18. CASE Validated
  BY <1>18 DEF Validated, Return, Posted
<1>19. CASE Reboot
  BY <1>19 DEF Reboot, Posted
<1>20. CASE ReportFailed
  BY <1>20 DEF ReportFailed, Posted, ClearOffer
<1>21. CASE RebootForUpdate
  BY <1>21 DEF RebootForUpdate, Posted
<1>22. CASE Restart
  BY <1>22 DEF Restart, ClearOffer
<1>23. CASE UNCHANGED vars
  BY <1>23 DEF vars
<1>24. QED
  BY <1>1, <1>2, <1>3, <1>4, <1>5, <1>6, <1>7, <1>8, <1>9, <1>10, <1>11, <1>12,
     <1>13, <1>14, <1>15, <1>16, <1>17, <1>18, <1>19, <1>20, <1>21, <1>22, <1>23
  DEF Next, Configure, Applying

LEMMA StepPolicy == TypeOK /\ Pursuit /\ Policy /\ [Next]_vars => Policy'
<1> SUFFICES ASSUME TypeOK, Pursuit, Policy, [Next]_vars PROVE Policy'
  OBVIOUS
<1>a. UNCHANGED <<keys, offer>>
        => Called' = Called
  BY DEF Called, VerifyKeys, Pinned
<1>b. Called = VerifyKeys(offer.keyId)
  BY DEF Called
<1> USE DEF policy, download, history, Idle, Policy, Downloading
<1>1. ASSUME NEW pem \in Keys \cup {NoKey}, SetSigningPublicKey(pem)
      PROVE  Policy'
  BY <1>1 DEF SetSigningPublicKey, Insist
<1>2. ASSUME NEW pem \in Keys \cup {NoKey}, NEW id \in KeyIds,
             AddSigningPublicKey(id, pem)
      PROVE  Policy'
  BY <1>2 DEF AddSigningPublicKey, Insist
<1>3. ASSUME NEW m \in {"basic", "signed"}, SetSecurityMode(m)
      PROVE  Policy'
  BY <1>3 DEF SetSecurityMode
<1>4. CASE Check
  BY <1>4 DEF Check, ClearOffer
<1>5. CASE Report
  BY <1>5 DEF Report, Posted
<1>6. CASE ApplyRefused
  BY <1>6 DEF ApplyRefused, Return
<1>7. CASE Apply
  BY <1>7 DEF Apply, Fail
<1>8. CASE Gate
  BY <1>a, <1>b, <1>8 DEF Gate, Fail, Posted, SignedGate
<1>9. CASE Get
  BY <1>a, <1>9 DEF Get, Fail
<1>10. CASE BeginUpdate
  BY <1>a, <1>10 DEF BeginUpdate, Fail
<1>11. CASE Download
  BY <1>a, <1>11 DEF Download, Fail
<1>12. CASE Downloaded
  BY <1>a, <1>12 DEF Downloaded, Posted
<1>13. CASE Checksum
  BY <1>a, <1>13 DEF Checksum, Fail
<1>14. CASE Verify
  BY <1>a, <1>14 DEF Verify, Fail, Verified
<1>15. CASE Stage
  BY <1>a, <1>15 DEF Stage, Fail, Verified
<1>16. CASE Switch
  BY <1>16 DEF Switch, Fail
<1>17. CASE Flashed
  BY <1>17 DEF Flashed, Posted
<1>18. CASE Validated
  BY <1>18 DEF Validated, Return, Posted
<1>19. CASE Reboot
  BY <1>19 DEF Reboot, Posted
<1>20. CASE ReportFailed
  BY <1>20 DEF ReportFailed, Posted, ClearOffer
<1>21. CASE RebootForUpdate
  BY <1>21 DEF RebootForUpdate, Posted
<1>22. CASE Restart
  BY <1>22 DEF Restart, ClearOffer
<1>23. CASE UNCHANGED vars
  BY <1>a, <1>23 DEF vars, Verified
<1>24. QED
  BY <1>1, <1>2, <1>3, <1>4, <1>5, <1>6, <1>7, <1>8, <1>9, <1>10, <1>11, <1>12,
     <1>13, <1>14, <1>15, <1>16, <1>17, <1>18, <1>19, <1>20, <1>21, <1>22, <1>23
  DEF Next, Configure, Applying

\* Only the switch changes what is installed.
LEMMA StepSignedOnly ==
  TypeOK /\ Insists /\ Policy /\ SignedOnly /\ [Next]_vars => SignedOnly'
<1> SUFFICES ASSUME TypeOK, Insists, Policy, SignedOnly, [Next]_vars PROVE SignedOnly'
  OBVIOUS
<1>1. CASE Switch
  <2>1. CASE installed' = installed
    BY <2>1 DEF SignedOnly
  <2>2. CASE installed' = [signer |-> offer.sig, genuine |-> image.genuine,
                           required |-> mode = "signed" /\ insisted,
                           pinned |-> Pinned, deployment |-> offered]
    <3> SUFFICES ASSUME mode = "signed", insisted
                 PROVE  image.genuine /\ offer.sig \in Pinned
      BY <2>2 DEF SignedOnly
    <3>1. tried = Called /\ keys # <<>>
      BY <1>1 DEF Switch, Policy, Downloading, Insists
    <3>2. tried # {} /\ tried \subseteq Pinned
      BY <3>1, VerifyKeysPinned DEF Called
    <3>3. Verified
      BY <1>1, <3>2 DEF Switch, Policy
    <3>4. QED
      BY <3>2, <3>3 DEF Verified
  <2>3. QED
    BY <1>1, <2>1, <2>2 DEF Switch, Fail, history
<1>2. CASE Restart
  BY <1>2 DEF Restart, SignedOnly, NotInstalled
<1>3. CASE ~Switch /\ ~Restart
  <2>1. UNCHANGED installed
    BY <1>3 DEF Next, Configure, Applying, SetSigningPublicKey, AddSigningPublicKey,
       SetSecurityMode, Check, Report, ApplyRefused, Apply, Gate, Get, BeginUpdate,
       Download, Downloaded, Checksum, Verify, Stage, Flashed, Validated, Reboot,
       ReportFailed, RebootForUpdate, Fail, history, vars
  <2>2. QED
    BY <2>1 DEF SignedOnly
<1>4. QED
  BY <1>1, <1>2, <1>3

LEMMA StepNaming == TypeOK /\ Pursuit /\ Naming /\ [Next]_vars => Naming'
<1> SUFFICES ASSUME TypeOK, Pursuit, Naming, [Next]_vars PROVE Naming'
  OBVIOUS
<1> USE DEF TypeOK, policy, download, history, Idle, Pursuit, Pursuing, Downloading, Naming
<1>1. ASSUME NEW pem \in Keys \cup {NoKey}, SetSigningPublicKey(pem)
      PROVE  Naming'
  BY <1>1 DEF SetSigningPublicKey, Insist
<1>2. ASSUME NEW pem \in Keys \cup {NoKey}, NEW id \in KeyIds,
             AddSigningPublicKey(id, pem)
      PROVE  Naming'
  BY <1>2 DEF AddSigningPublicKey, Insist
<1>3. ASSUME NEW m \in {"basic", "signed"}, SetSecurityMode(m)
      PROVE  Naming'
  BY <1>3 DEF SetSecurityMode
<1>4. CASE Check
  BY <1>4 DEF Check, ClearOffer, Offers
<1>5. CASE Report
  BY <1>5 DEF Report, Posted
<1>6. CASE ApplyRefused
  BY <1>6 DEF ApplyRefused, Return
<1>7. CASE Apply
  BY <1>7 DEF Apply, Fail
<1>8. CASE Gate
  BY <1>8 DEF Gate, Fail, Posted
<1>9. CASE Get
  BY <1>9 DEF Get, Fail
<1>10. CASE BeginUpdate
  BY <1>10 DEF BeginUpdate, Fail
<1>11. CASE Download
  BY <1>11 DEF Download, Fail
<1>12. CASE Downloaded
  BY <1>12 DEF Downloaded, Posted
<1>13. CASE Checksum
  BY <1>13 DEF Checksum, Fail
<1>14. CASE Verify
  BY <1>14 DEF Verify, Fail
<1>15. CASE Stage
  BY <1>15 DEF Stage, Fail
<1>16. CASE Switch
  BY <1>16 DEF Switch, Fail
<1>17. CASE Flashed
  BY <1>17 DEF Flashed, Posted
<1>18. CASE Validated
  BY <1>18 DEF Validated, Return, Posted
<1>19. CASE Reboot
  BY <1>19 DEF Reboot, Posted
<1>20. CASE ReportFailed
  BY <1>20 DEF ReportFailed, Posted, ClearOffer
<1>21. CASE RebootForUpdate
  BY <1>21 DEF RebootForUpdate, Posted
<1>22. CASE Restart
  BY <1>22 DEF Restart, ClearOffer
<1>23. CASE UNCHANGED vars
  BY <1>23 DEF vars
<1>24. QED
  BY <1>1, <1>2, <1>3, <1>4, <1>5, <1>6, <1>7, <1>8, <1>9, <1>10, <1>11, <1>12,
     <1>13, <1>14, <1>15, <1>16, <1>17, <1>18, <1>19, <1>20, <1>21, <1>22, <1>23
  DEF Next, Configure, Applying

\* What posting an event does to the list.
LEMMA PostedNames ==
  ASSUME TypeOK, EventsNameTheirs, NEW e \in Kinds, NEW d, Posted(e, d),
         UNCHANGED <<offered, waiting, installed>>,
         IF e = "reboot" THEN waiting /\ d = installed.deployment ELSE d = offered
  PROVE  EventsNameTheirs'
<1> SUFFICES ASSUME NEW i \in DOMAIN events'
             PROVE  IF events'[i].event = "reboot"
                      THEN waiting /\ events'[i].deployment = installed.deployment
                      ELSE events'[i].deployment = offered
  BY DEF EventsNameTheirs
<1> DEFINE new == [event |-> e, deployment |-> d]
<1>1. events \in Seq(StatusEvents) /\ events' = Append(events, new)
  BY DEF TypeOK, Posted
<1>2. CASE i \in DOMAIN events
  <2>1. events'[i] = events[i]
    BY <1>1, <1>2
  <2>2. QED
    BY <1>2, <2>1 DEF EventsNameTheirs
<1>3. CASE i \notin DOMAIN events
  <2>1. events'[i] = new
    BY <1>1, <1>3
  <2>2. QED
    BY <2>1
<1>4. QED
  BY <1>2, <1>3

LEMMA PostedOutcomes ==
  ASSUME TypeOK, NEW e \in Kinds, NEW d, Posted(e, d)
  PROVE  Outcomes' = IF e \in {"failed", "flashed"} THEN Outcomes \cup {Len(events) + 1}
                     ELSE Outcomes
<1> DEFINE new == [event |-> e, deployment |-> d]
<1>1. events \in Seq(StatusEvents) /\ events' = Append(events, new)
  BY DEF TypeOK, Posted
<1>2. /\ DOMAIN events' = DOMAIN events \cup {Len(events) + 1}
      /\ \A i \in DOMAIN events : events'[i] = events[i]
      /\ Len(events) + 1 \notin DOMAIN events
      /\ events'[Len(events) + 1] = new
  BY <1>1
<1>3. new.event = e
  OBVIOUS
<1>4. QED
  BY <1>2, <1>3 DEF Outcomes

LEMMA StepNames ==
  TypeOK /\ Pursuit /\ Naming /\ EventsNameTheirs /\ [Next]_vars => EventsNameTheirs'
<1> SUFFICES ASSUME TypeOK, Pursuit, Naming, EventsNameTheirs, [Next]_vars
             PROVE  EventsNameTheirs'
  OBVIOUS
<1>a. \A e \in Kinds : \A d :
        /\ Posted(e, d) /\ UNCHANGED <<offered, waiting, installed>>
        /\ IF e = "reboot" THEN waiting /\ d = installed.deployment ELSE d = offered
        => EventsNameTheirs'
  BY PostedNames
<1>b. UNCHANGED <<events, offered, waiting, installed>> => EventsNameTheirs'
  BY DEF EventsNameTheirs
<1> USE DEF policy, download, history, Idle
<1>1. ASSUME NEW pem \in Keys \cup {NoKey}, SetSigningPublicKey(pem)
      PROVE  EventsNameTheirs'
  BY <1>b, <1>1 DEF SetSigningPublicKey, Insist
<1>2. ASSUME NEW pem \in Keys \cup {NoKey}, NEW id \in KeyIds,
             AddSigningPublicKey(id, pem)
      PROVE  EventsNameTheirs'
  BY <1>b, <1>2 DEF AddSigningPublicKey, Insist
<1>3. ASSUME NEW m \in {"basic", "signed"}, SetSecurityMode(m)
      PROVE  EventsNameTheirs'
  BY <1>b, <1>3 DEF SetSecurityMode
<1>4. CASE Check
  BY <1>4 DEF Check, ClearOffer, EventsNameTheirs
<1>5. CASE Report
  BY <1>5, <1>a DEF Report, Kinds, Pursuit, Pursuing, Downloading, Naming
<1>6. CASE ApplyRefused
  BY <1>b, <1>6 DEF ApplyRefused, Return
<1>7. CASE Apply
  BY <1>b, <1>7 DEF Apply, Fail
<1>8. CASE Gate
  <2>1. CASE Posted("download_started", context)
    BY <1>8, <2>1, <1>a DEF Gate, Fail, Kinds, Pursuit, Pursuing, Downloading, Naming
  <2>2. CASE UNCHANGED events
    BY <1>8, <2>2, <1>b DEF Gate, Fail
  <2>3. QED
    BY <1>8, <2>1, <2>2 DEF Gate, Fail
<1>9. CASE Get
  BY <1>b, <1>9 DEF Get, Fail
<1>10. CASE BeginUpdate
  BY <1>b, <1>10 DEF BeginUpdate, Fail
<1>11. CASE Download
  BY <1>b, <1>11 DEF Download, Fail
<1>12. CASE Downloaded
  BY <1>12, <1>a DEF Downloaded, Kinds, Pursuit, Pursuing, Downloading, Naming
<1>13. CASE Checksum
  BY <1>b, <1>13 DEF Checksum, Fail
<1>14. CASE Verify
  BY <1>b, <1>14 DEF Verify, Fail
<1>15. CASE Stage
  BY <1>b, <1>15 DEF Stage, Fail
<1>16. CASE Switch
  <2>1. CASE Fail("flash")
    BY <2>1, <1>b DEF Fail
  <2>2. CASE UNCHANGED <<events, offered>> /\ ~waiting
    BY <2>2 DEF EventsNameTheirs
  <2>3. QED
    BY <1>16, <2>1, <2>2 DEF Switch, Pursuit, Pursuing, Downloading, Naming
<1>17. CASE Flashed
  BY <1>17, <1>a DEF Flashed, Kinds, Pursuit, Pursuing, Downloading, Naming
<1>18. CASE Validated
  BY <1>18, <1>a DEF Validated, Return, Kinds, Pursuit, Pursuing, Downloading, Naming
<1>19. CASE Reboot
  BY <1>19, <1>a DEF Reboot, Kinds, Pursuit, Pursuing, Downloading, Naming
<1>20. CASE ReportFailed
  BY <1>20, <1>a DEF ReportFailed, Kinds, Pursuit, Pursuing, Downloading, Naming
<1>21. CASE RebootForUpdate
  <2>1. CASE Posted("reboot", saved) /\ waiting
    BY <1>21, <2>1, <1>a DEF RebootForUpdate, Kinds, Naming
  <2>2. CASE UNCHANGED events
    BY <1>21, <2>2, <1>b DEF RebootForUpdate
  <2>3. QED
    BY <1>21, <2>1, <2>2 DEF RebootForUpdate
<1>22. CASE Restart
  BY <1>22 DEF Restart, ClearOffer, EventsNameTheirs
<1>23. CASE UNCHANGED vars
  BY <1>b, <1>23 DEF vars
<1>24. QED
  BY <1>1, <1>2, <1>3, <1>4, <1>5, <1>6, <1>7, <1>8, <1>9, <1>10, <1>11, <1>12,
     <1>13, <1>14, <1>15, <1>16, <1>17, <1>18, <1>19, <1>20, <1>21, <1>22, <1>23
  DEF Next, Configure, Applying

LEMMA StepOutcome == TypeOK /\ Outcome /\ [Next]_vars => Outcome'
<1> SUFFICES ASSUME TypeOK, Outcome, [Next]_vars PROVE Outcome'
  OBVIOUS
<1>a. \A e \in Kinds : \A d : Posted(e, d) =>
        Outcomes' = IF e \in {"failed", "flashed"} THEN Outcomes \cup {Len(events) + 1}
                    ELSE Outcomes
  BY PostedOutcomes
<1>b. UNCHANGED events => Outcomes' = Outcomes
  BY DEF Outcomes
<1> USE DEF policy, download, history, Idle, Outcome, Downloading, Kinds
<1>1. ASSUME NEW pem \in Keys \cup {NoKey}, SetSigningPublicKey(pem)
      PROVE  Outcome'
  BY <1>b, <1>1 DEF SetSigningPublicKey, Insist
<1>2. ASSUME NEW pem \in Keys \cup {NoKey}, NEW id \in KeyIds,
             AddSigningPublicKey(id, pem)
      PROVE  Outcome'
  BY <1>b, <1>2 DEF AddSigningPublicKey, Insist
<1>3. ASSUME NEW m \in {"basic", "signed"}, SetSecurityMode(m)
      PROVE  Outcome'
  BY <1>b, <1>3 DEF SetSecurityMode
<1>4. CASE Check
  BY <1>4 DEF Check, ClearOffer, Outcomes
<1>5. CASE Report
  BY <1>a, <1>5 DEF Report, Posted
<1>6. CASE ApplyRefused
  BY <1>b, <1>6 DEF ApplyRefused, Return
<1>7. CASE Apply
  BY <1>b, <1>7 DEF Apply, Fail
<1>8. CASE Gate
  BY <1>a, <1>b, <1>8 DEF Gate, Fail, Posted
<1>9. CASE Get
  BY <1>b, <1>9 DEF Get, Fail
<1>10. CASE BeginUpdate
  BY <1>b, <1>10 DEF BeginUpdate, Fail
<1>11. CASE Download
  BY <1>b, <1>11 DEF Download, Fail
<1>12. CASE Downloaded
  BY <1>a, <1>12 DEF Downloaded, Posted
<1>13. CASE Checksum
  BY <1>b, <1>13 DEF Checksum, Fail
<1>14. CASE Verify
  BY <1>b, <1>14 DEF Verify, Fail
<1>15. CASE Stage
  BY <1>b, <1>15 DEF Stage, Fail
<1>16. CASE Switch
  BY <1>b, <1>16 DEF Switch, Fail
<1>17. CASE Flashed
  BY <1>a, <1>17 DEF Flashed, Posted
<1>18. CASE Validated
  BY <1>a, <1>18 DEF Validated, Return, Posted
<1>19. CASE Reboot
  BY <1>a, <1>19 DEF Reboot, Posted
<1>20. CASE ReportFailed
  BY <1>a, <1>20 DEF ReportFailed, ClearOffer
<1>21. CASE RebootForUpdate
  BY <1>a, <1>b, <1>21 DEF RebootForUpdate, Posted
<1>22. CASE Restart
  BY <1>22 DEF Restart, ClearOffer, Outcomes
<1>23. CASE UNCHANGED vars
  BY <1>b, <1>23 DEF vars
<1>24. QED
  BY <1>1, <1>2, <1>3, <1>4, <1>5, <1>6, <1>7, <1>8, <1>9, <1>10, <1>11, <1>12,
     <1>13, <1>14, <1>15, <1>16, <1>17, <1>18, <1>19, <1>20, <1>21, <1>22, <1>23
  DEF Next, Configure, Applying

-----------------------------------------------------------------------------
\* The theorems.

LEMMA Inductive == IInv /\ [Next]_vars => IInv'
BY StepTypeOK, StepPursuit, StepConnected, StepInsists, StepPolicy, StepSignedOnly,
   StepNaming, StepNames, StepOutcome DEF IInv

THEOREM Always == Spec => []IInv
BY InitIInv, Inductive, PTL DEF Spec

\* The variables of check() and apply() keep their types, for any keys, ids
\* and deployments.
THEOREM OfferTypes == Spec => []TypeOK
<1>1. IInv => TypeOK
  BY DEF IInv
<1>2. QED
  BY <1>1, Always, PTL

\* In signed mode, once a key is pinned, apply() switches only to an image
\* signed by a pinned key.
THEOREM OnlySigned == Spec => []SignedOnly
<1>1. IInv => SignedOnly
  BY DEF IInv
<1>2. QED
  BY <1>1, Always, PTL

\* Every status event names the deployment it is about.
THEOREM EventsAreNamed == Spec => []EventsNameTheirs
<1>1. IInv => EventsNameTheirs
  BY DEF IInv
<1>2. QED
  BY <1>1, Always, PTL

\* An offer has one outcome at most.
THEOREM OneOutcomeEach == Spec => []OneOutcome
<1>1. IInv => OneOutcome
  <2> SUFFICES ASSUME IInv PROVE Cardinality(Outcomes) <= 1
    BY DEF OneOutcome, Outcomes
  <2>1. CASE Outcomes = {}
    BY <2>1, FS_EmptySet
  <2>2. CASE Outcomes # {}
    <3>1. PICK i : Outcomes = {i}
      BY <2>2 DEF IInv, Outcome
    <3>2. Cardinality(Outcomes) = 1
      BY <3>1, FS_Singleton
    <3>3. QED
      BY <3>2
  <2>3. QED
    BY <2>1, <2>2
<1>2. QED
  BY <1>1, Always, PTL

\* No event is posted and no check() made while the download is connected.
THEOREM OneSessionOnly == Spec => OneSession
<1>1. IInv /\ [Next]_vars => [events' # events => ~session]_vars
  <2> SUFFICES ASSUME IInv, Next, session PROVE UNCHANGED events
    OBVIOUS
  <2>1. pc \in {"begin", "loop"}
    BY DEF IInv, Connected
  <2>2. QED
    BY <2>1 DEF Next, Configure, Applying, Idle, SetSigningPublicKey, AddSigningPublicKey,
       SetSecurityMode, Check, Report, ApplyRefused, Apply, Gate, Get, BeginUpdate,
       Download, Downloaded, Checksum, Verify, Stage, Switch, Flashed, Validated, Reboot,
       ReportFailed, RebootForUpdate, Restart, Fail, history
<1>2. QED
  BY <1>1, Always, PTL DEF Spec, OneSession

\* A genuine image by a pinned signer passes, unless two pinned keys share the
\* id the offer names.
THEOREM RotationWorks == Spec => RotationVerifies
<1> DEFINE Known(i) ==
      /\ keys[i].key = offer.sig
      /\ \A j \in DOMAIN keys : offer.keyId # 0 /\ keys[j].id = offer.keyId => i = j
    A == pc = "verify" /\ pc' = "failed" =>
           ~ (image.genuine /\ \E i \in DOMAIN keys : Known(i))
<1>1. IInv /\ [Next]_vars => [A]_vars
  <2> SUFFICES ASSUME IInv, Next, pc = "verify", pc' = "failed", image.genuine,
                      NEW i \in DOMAIN keys, Known(i)
               PROVE  FALSE
    OBVIOUS
  <2>1. Verify
    BY DEF Next, Configure, Applying, Idle, SetSigningPublicKey, AddSigningPublicKey,
       SetSecurityMode, Check, Report, ApplyRefused, Apply, Gate, Get, BeginUpdate,
       Download, Downloaded, Checksum, Stage, Switch, Flashed, Validated, Reboot,
       ReportFailed, RebootForUpdate, Restart
  <2>2. tried # {} /\ ~Verified
    BY <2>1 DEF Verify
  <2>3. tried = VerifyKeys(offer.keyId)
    BY <2>2 DEF IInv, Policy, Downloading, Called
  <2>4. offer.sig \in VerifyKeys(offer.keyId)
    BY VerifyKeysSigner DEF IInv
  <2>5. QED
    BY <2>2, <2>3, <2>4 DEF Verified
<1>2. QED
  BY <1>1, Always, PTL DEF Spec, RotationVerifies
=============================================================================

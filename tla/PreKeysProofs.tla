--------------------------- MODULE PreKeysProofs ---------------------------
(***************************************************************************)
(* Proofs about PreKeys, for any users, devices, keys, threshold and       *)
(* number of requests served at the same time.                             *)
(*                                                                         *)
(* What each property needs to be inductive: a one-time prekey in the pool *)
(* has one unused upload (Credit); every key a row or a call carries is    *)
(* the one of its owner's identity keys that it says (Published); and      *)
(* unless rotations of an owner overlapped, a rotation between its two     *)
(* statements is the only one and there is no active key meanwhile         *)
(* (OneRotation).                                                          *)
(***************************************************************************)
EXTENDS PreKeys, FiniteSetTheorems, TLAPS

KeySteps == {"deactivate", "add", "identity", "signed", "consume", "count", "dispatch"}

CallRecord ==
    [pc : {"idle", "update", "bind"} \cup KeySteps,
     o : Owners \cup Devices \cup {NoRow}, id : Labels \cup SpkIds \cup {NoRow},
     by : SignKeys \cup {NoKey}, key : SignKeys \cup {NoKey}, checked : Nat, read : Nat]

\* The requests in progress, which TypeOK leaves open: what a step needs is there.
Equipped(x) ==
    /\ x.pc \in KeySteps \cup {"bind"} => x.o \in Owners
    /\ x.pc = "update" => x.o \in Devices /\ x.id \in Labels
    /\ x.pc \in {"deactivate", "add"} => x.id \in SpkIds /\ x.by \in SignKeys
CallsOK == call \in [Calls -> CallRecord] /\ \A c \in Calls : Equipped(call[c])

\* A key in the pool has been uploaded once more than it was given away.
Credit == \A k \in Owners \X OtpIds : credit[k] >= IF k \in pool THEN 1 ELSE 0

\* The n-th identity key of owner o was k.
Was(o, n, k) == n \in 1..Len(had[o]) /\ had[o][n] = k

\* The keys that rows and calls carry are the ones they say.
Published ==
    /\ \A o \in Owners : identity[o] # NoKey => Was(o, Len(had[o]), identity[o])
    /\ \A r \in signed : Was(r.o, r.checked, r.by)
    /\ \A c \in Calls :
           /\ call[c].pc \in {"deactivate", "add", "consume", "count", "dispatch"}
                  => Was(call[c].o, call[c].checked, call[c].by)
           /\ call[c].pc \in {"signed", "consume", "count", "dispatch"}
                  => Was(call[c].o, call[c].read, call[c].key)

\* An owner whose rotations did not overlap has at most one active key, and none
\* while a rotation, then the only one, is about to add it.
OneRotation ==
    \A o \in Owners : o \notin overlap =>
        /\ \A r, s \in FindActive(o) : r = s
        /\ \A c, d \in At("add", o) : c = d
        /\ At("add", o) # {} => FindActive(o) = {}

\* A completed rotation has left an active key: the first half of RotationKeepsOneActive.
RotationDone == \A o \in Owners : rotation[o] = "done" => FindActive(o) # {} \/ At("add", o) # {}

IInv == TypeOK /\ CallsOK /\ Credit /\ Published /\ OneRotation /\ RotationDone /\ LowPoolIsReported

-----------------------------------------------------------------------------
\* What the ways to go on leave in call.
LEMMA CallWrites ==
    ASSUME CallsOK, NEW c \in Calls
    PROVE  /\ \A d \in Calls : d # c =>
                  /\ \A rec : Start(c, rec) => call'[d] = call[d]
                  /\ \A pc : Goto(c, pc) => call'[d] = call[d]
                  /\ Return(c) => call'[d] = call[d]
           /\ \A rec : Start(c, rec) => call'[c] = rec /\ call[c].pc = "idle"
           /\ \A pc : Goto(c, pc) => /\ call'[c].pc = pc /\ call'[c].o = call[c].o /\ call'[c].id = call[c].id
                                     /\ call'[c].by = call[c].by /\ call'[c].key = call[c].key
                                     /\ call'[c].checked = call[c].checked /\ call'[c].read = call[c].read
           /\ Return(c) => call'[c] = Returned
BY DEF CallsOK, Start, Goto, Return, CallRecord

\* The types of call and served after each of them.
LEMMA CallTypes ==
    ASSUME TypeOK, CallsOK, NEW c \in Calls,
           \/ \E rec \in CallRecord : Equipped(rec) /\ Start(c, rec)
           \/ Return(c)
           \/ \E pc \in KeySteps : /\ Goto(c, pc) /\ call[c].o \in Owners
                                   /\ pc \in {"deactivate", "add"} => call[c].id \in SpkIds /\ call[c].by \in SignKeys
    PROVE  CallsOK' /\ served' \in 0..MaxCalls
<1>1. ASSUME NEW rec \in CallRecord, Equipped(rec), Start(c, rec) PROVE CallsOK' /\ served' \in 0..MaxCalls
  BY <1>1, PreKeysAssumption DEF CallsOK, Start, TypeOK
<1>2. ASSUME Return(c) PROVE CallsOK' /\ served' \in 0..MaxCalls
  <2>1. Returned \in CallRecord /\ Equipped(Returned)
    BY DEF Returned, CallRecord, Equipped, KeySteps
  <2> QED BY <1>2, <2>1 DEF CallsOK, Return, TypeOK
<1>3. ASSUME NEW pc \in KeySteps, Goto(c, pc), call[c].o \in Owners,
             pc \in {"deactivate", "add"} => call[c].id \in SpkIds /\ call[c].by \in SignKeys
      PROVE  CallsOK' /\ served' \in 0..MaxCalls
  <2>1. call[c] \in CallRecord
    BY DEF CallsOK
  <2>2. [call[c] EXCEPT !.pc = pc] \in CallRecord /\ Equipped([call[c] EXCEPT !.pc = pc])
    BY <1>3, <2>1 DEF CallRecord, Equipped, KeySteps
  <2> QED BY <1>3, <2>2 DEF CallsOK, Goto, TypeOK
<1> QED BY <1>1, <1>2, <1>3

\* Who is at a step after one of them: only c may have come or gone.
LEMMA AtOthers ==
    ASSUME CallsOK, NEW c \in Calls, NEW pc, NEW o,
           \A d \in Calls : d # c => call'[d] = call[d]
    PROVE  /\ \A d \in Calls : d # c => (d \in At(pc, o)' <=> d \in At(pc, o))
           /\ c \in At(pc, o)' <=> call'[c].pc = pc /\ call'[c].o = o
           /\ At(pc, o) \subseteq Calls /\ At(pc, o)' \subseteq Calls
BY DEF At

\* Init: one device, set up.
LEMMA IInvInit == Init => IInv
<1> SUFFICES ASSUME NEW u \in Users, NEW d \in Devices, NEW label \in Labels, NEW key \in SignKeys,
                    NEW spk \in SpkIds, NEW otps \in SUBSET OtpIds, InitFor(u, d, label, key, spk, otps)
             PROVE  IInv
  BY DEF Init
<1> USE DEF InitFor
<1>0. <<u, d>> \in Owners
  BY DEF Owners
<1>1. TypeOK
  <2>1. pool \subseteq Owners \X OtpIds
    BY <1>0
  <2>2. signed \subseteq [o : Owners, id : SpkIds, by : SignKeys, active : BOOLEAN, checked : Nat]
    BY <1>0
  <2>3. device \in [Devices -> Labels \cup {NoRow}] /\ identity \in [Owners -> SignKeys \cup {NoKey}]
    OBVIOUS
  <2>4. credit \in [Owners \X OtpIds -> Int]
    OBVIOUS
  <2>5. had \in [Owners -> Seq(SignKeys)]
    OBVIOUS
  <2>6. served \in 0..MaxCalls /\ bound \subseteq Owners
    BY <1>0, PreKeysAssumption
  <2> QED BY <2>1, <2>2, <2>3, <2>4, <2>5, <2>6 DEF TypeOK
<1>2. \A c \in Calls : call[c] = Returned
  OBVIOUS
<1>3. CallsOK
  <2>1. Returned \in CallRecord /\ Equipped(Returned)
    BY DEF Returned, CallRecord, Equipped, KeySteps
  <2> QED BY <2>1 DEF CallsOK
<1>4. Credit
  BY DEF Credit
<1>5. Published
  <2>1. Was(<<u, d>>, 1, key) /\ Len(had[<<u, d>>]) = 1
    BY <1>0 DEF Was
  <2>2. \A o \in Owners : identity[o] # NoKey => Was(o, Len(had[o]), identity[o])
    BY <2>1
  <2>3. \A r \in signed : Was(r.o, r.checked, r.by)
    BY <2>1
  <2> QED BY <1>2, <2>2, <2>3 DEF Published, Returned
<1>6. \A o \in Owners, pc \in KeySteps : At(pc, o) = {}
  BY <1>2 DEF At, Returned, KeySteps
<1>7. OneRotation /\ RotationDone
  <2>1. \A o \in Owners : /\ At("add", o) = {}
                          /\ \A r, t \in FindActive(o) : r = t
                          /\ o = <<u, d>> => FindActive(o) # {}
    <3> DEFINE row == [o |-> <<u, d>>, id |-> spk, by |-> key, active |-> TRUE, checked |-> 1]
    <3>1. \A o \in Owners : FindActive(o) \subseteq {row} /\ (o = <<u, d>> => row \in FindActive(o))
      BY DEF FindActive
    <3> QED BY <1>6, <3>1 DEF KeySteps
  <2> QED BY <2>1 DEF OneRotation, RotationDone
<1>8. LowPoolIsReported
  BY DEF LowPoolIsReported
<1> QED BY <1>1, <1>3, <1>4, <1>5, <1>7, <1>8 DEF IInv

-----------------------------------------------------------------------------
\* No step leaves the types.
LEMMA TypeStep == TypeOK /\ CallsOK /\ [Next]_vars => TypeOK' /\ CallsOK'
<1> SUFFICES ASSUME TypeOK, CallsOK, [Next]_vars PROVE TypeOK' /\ CallsOK'
  OBVIOUS
<1> DEFINE Goal == TypeOK' /\ CallsOK'
<1>0. Returned \in CallRecord /\ Equipped(Returned)
  BY DEF Returned, CallRecord, Equipped, KeySteps
<1>1. ASSUME NEW c \in Calls, NEW d \in Devices, NEW label \in Labels, RegisterDevice(c, d, label) PROVE Goal
  <2>1. CallsOK' /\ served' \in 0..MaxCalls
    BY <1>0, <1>1, CallTypes DEF RegisterDevice
  <2> QED BY <1>1, <2>1 DEF RegisterDevice, Created, TypeOK, history
<1>2. ASSUME NEW c \in Calls, NEW d \in Devices, NEW label \in Labels, UpdateFind(c, d, label) PROVE Goal
  <2>1. [Returned EXCEPT !.pc = "update", !.o = d, !.id = label] \in CallRecord
    BY DEF Returned, CallRecord
  <2>2. Equipped([Returned EXCEPT !.pc = "update", !.o = d, !.id = label])
    BY DEF Returned, Equipped, KeySteps
  <2>3. CallsOK' /\ served' \in 0..MaxCalls
    BY <1>2, <2>1, <2>2, CallTypes DEF UpdateFind
  <2> QED BY <1>2, <2>3 DEF UpdateFind, TypeOK, rows, history
<1>3. ASSUME NEW c \in Calls, UpdateDevice(c) PROVE Goal
  <2>1. CallsOK' /\ served' \in 0..MaxCalls
    BY <1>3, CallTypes DEF UpdateDevice
  <2>2. call[c].o \in Devices /\ call[c].id \in Labels
    BY <1>3 DEF UpdateDevice, CallsOK, Equipped
  <2> QED BY <1>3, <2>1, <2>2 DEF UpdateDevice, Updated, TypeOK, history
<1>4. ASSUME NEW c \in Calls, NEW u \in Users, NEW d \in Devices, BindFind(c, u, d) PROVE Goal
  <2>1. <<u, d>> \in Owners
    BY DEF Owners
  <2>2. [Returned EXCEPT !.pc = "bind", !.o = <<u, d>>] \in CallRecord
    BY <2>1 DEF Returned, CallRecord
  <2>3. Equipped([Returned EXCEPT !.pc = "bind", !.o = <<u, d>>])
    BY <2>1 DEF Returned, Equipped, KeySteps
  <2>4. CallsOK' /\ served' \in 0..MaxCalls
    BY <1>4, <2>2, <2>3, CallTypes DEF BindFind
  <2> QED BY <1>4, <2>4 DEF BindFind, TypeOK, rows, history
<1>5. ASSUME NEW c \in Calls, BindAccount(c) PROVE Goal
  <2>1. CallsOK' /\ served' \in 0..MaxCalls
    BY <1>5, CallTypes DEF BindAccount
  <2>2. call[c].o \in Owners
    BY <1>5 DEF BindAccount, CallsOK, Equipped
  <2> QED BY <1>5, <2>1, <2>2 DEF BindAccount, Paired, TypeOK, history
<1>6. ASSUME NEW c \in Calls, NEW u \in Users, NEW d \in Devices, DeleteByAccount(c, u, d) PROVE Goal
  <2>1. CallsOK' /\ served' \in 0..MaxCalls
    BY <1>0, <1>6, CallTypes DEF DeleteByAccount
  <2> QED BY <1>6, <2>1 DEF DeleteByAccount, TypeOK
<1>7. ASSUME NEW c \in Calls, NEW o \in Owners, NEW k \in SignKeys, UploadIdentityKey(c, o, k) PROVE Goal
  <2>1. CallsOK' /\ served' \in 0..MaxCalls
    BY <1>0, <1>7, CallTypes DEF UploadIdentityKey
  <2>2. had' \in [Owners -> Seq(SignKeys)]
    BY <1>7 DEF UploadIdentityKey, TypeOK
  <2> QED BY <1>7, <2>1, <2>2 DEF UploadIdentityKey, Upserted, TypeOK
<1>8. ASSUME NEW c \in Calls, NEW o \in Owners, NEW id \in SpkIds, NEW by \in SignKeys,
             VerifySignedPreKey(c, o, id, by)
      PROVE  Goal
  <2> DEFINE rec == [Returned EXCEPT !.pc = "deactivate", !.o = o, !.id = id, !.by = by, !.checked = Nth(o)]
  <2>0. Nth(o) \in Nat
    BY DEF Nth, TypeOK
  <2>1. rec \in CallRecord /\ Equipped(rec)
    BY <2>0 DEF Returned, CallRecord, Equipped, KeySteps
  <2>2. CallsOK' /\ served' \in 0..MaxCalls
    BY <1>8, <2>1, CallTypes DEF VerifySignedPreKey
  <2> QED BY <1>8, <2>2 DEF VerifySignedPreKey, TypeOK, rows, history
<1>9. ASSUME NEW c \in Calls, DeactivateAll(c) PROVE Goal
  <2>1. call[c].o \in Owners /\ call[c].id \in SpkIds /\ call[c].by \in SignKeys
    BY <1>9 DEF DeactivateAll, CallsOK, Equipped, KeySteps
  <2>2. CallsOK' /\ served' \in 0..MaxCalls
    BY <1>9, <2>1, CallTypes DEF DeactivateAll, KeySteps
  <2>3. Deactivated(call[c].o) \subseteq [o : Owners, id : SpkIds, by : SignKeys, active : BOOLEAN, checked : Nat]
    BY DEF Deactivated, TypeOK
  <2> QED BY <1>9, <2>1, <2>2, <2>3 DEF DeactivateAll, TypeOK
<1>10. ASSUME NEW c \in Calls, NEW ok \in BOOLEAN, Add(c, ok) PROVE Goal
  <2>1. call[c].o \in Owners /\ call[c].id \in SpkIds /\ call[c].by \in SignKeys
    BY <1>10 DEF Add, CallsOK, Equipped, KeySteps
  <2>2. CallsOK' /\ served' \in 0..MaxCalls
    BY <1>10, CallTypes DEF Add
  <2>3. [o |-> call[c].o, id |-> call[c].id, by |-> call[c].by, active |-> TRUE, checked |-> call[c].checked]
            \in [o : Owners, id : SpkIds, by : SignKeys, active : BOOLEAN, checked : Nat]
    BY <2>1 DEF CallsOK, CallRecord
  <2>4. signed' \subseteq [o : Owners, id : SpkIds, by : SignKeys, active : BOOLEAN, checked : Nat]
    BY <1>10, <2>3 DEF Add, TypeOK
  <2> QED BY <1>10, <2>1, <2>2, <2>4 DEF Add, TypeOK
<1>11. ASSUME NEW c \in Calls, NEW o \in Owners, NEW ids \in SUBSET OtpIds, UploadOTPPreKeys(c, o, ids) PROVE Goal
  <2>1. CallsOK' /\ served' \in 0..MaxCalls
    BY <1>0, <1>11, CallTypes DEF UploadOTPPreKeys
  <2> QED BY <1>11, <2>1 DEF UploadOTPPreKeys, TypeOK
<1>12. ASSUME NEW c \in Calls, NEW u \in Users, NEW given \in Devices \cup {NoRow}, BundleStart(c, u, given) PROVE Goal
  <2>1. PICK d \in Devices : Start(c, [Returned EXCEPT !.pc = "identity", !.o = <<u, d>>])
    BY <1>12 DEF BundleStart, FindByUser
  <2>2. <<u, d>> \in Owners
    BY DEF Owners
  <2>3. [Returned EXCEPT !.pc = "identity", !.o = <<u, d>>] \in CallRecord
    BY <2>2 DEF Returned, CallRecord, KeySteps
  <2>4. Equipped([Returned EXCEPT !.pc = "identity", !.o = <<u, d>>])
    BY <2>2 DEF Returned, Equipped, KeySteps
  <2>5. CallsOK' /\ served' \in 0..MaxCalls
    BY <2>1, <2>3, <2>4, CallTypes
  <2> QED BY <1>12, <2>5 DEF BundleStart, TypeOK, rows, history
<1>13. ASSUME NEW c \in Calls, BundleIdentity(c) PROVE Goal
  <2>1. call[c].o \in Owners /\ call[c] \in CallRecord
    BY <1>13 DEF BundleIdentity, CallsOK, Equipped, KeySteps
  <2>2. CASE identity[call[c].o] = NoKey
    BY <1>13, <2>2, CallTypes DEF BundleIdentity, FindByUserAndDevice, TypeOK, rows, history
  <2>3. CASE identity[call[c].o] # NoKey
    <3> DEFINE rec == [call[c] EXCEPT !.pc = "signed", !.key = identity[call[c].o], !.read = Nth(call[c].o)]
    <3>1. identity[call[c].o] \in SignKeys /\ Nth(call[c].o) \in Nat
      BY <2>1, <2>3 DEF TypeOK, Nth
    <3>2. rec \in CallRecord /\ Equipped(rec)
      BY <2>1, <3>1 DEF CallRecord, Equipped, KeySteps
    <3>3. call' = [call EXCEPT ![c] = rec]
      BY <1>13, <2>1, <2>3 DEF BundleIdentity, FindByUserAndDevice, CallRecord, CallsOK
    <3>4. CallsOK'
      BY <3>2, <3>3 DEF CallsOK
    <3> QED BY <1>13, <2>3, <3>4 DEF BundleIdentity, FindByUserAndDevice, TypeOK, rows, history
  <2> QED BY <2>2, <2>3
<1>14. ASSUME NEW c \in Calls, BundleSigned(c) PROVE Goal
  <2>1. call[c].o \in Owners /\ call[c] \in CallRecord
    BY <1>14 DEF BundleSigned, CallsOK, Equipped, KeySteps
  <2>2. CASE FindActive(call[c].o) = {}
    BY <1>14, <2>2, CallTypes DEF BundleSigned, TypeOK, rows, history
  <2>3. CASE FindActive(call[c].o) # {}
    <3>1. PICK r \in FindActive(call[c].o) :
              /\ call' = [call EXCEPT ![c].pc = "consume", ![c].id = r.id, ![c].by = r.by, ![c].checked = r.checked]
              /\ UNCHANGED served
      BY <1>14, <2>3 DEF BundleSigned
    <3> DEFINE rec == [call[c] EXCEPT !.pc = "consume", !.id = r.id, !.by = r.by, !.checked = r.checked]
    <3>2. r.id \in SpkIds /\ r.by \in SignKeys /\ r.checked \in Nat
      BY DEF FindActive, TypeOK
    <3>3. rec \in CallRecord /\ Equipped(rec)
      BY <2>1, <3>2 DEF CallRecord, Equipped, KeySteps
    <3>4. call' = [call EXCEPT ![c] = rec]
      BY <2>1, <3>1 DEF CallRecord, CallsOK
    <3>5. CallsOK'
      BY <3>3, <3>4 DEF CallsOK
    <3> QED BY <1>14, <3>1, <3>5 DEF BundleSigned, TypeOK, rows, history
  <2> QED BY <2>2, <2>3
<1>15. ASSUME NEW c \in Calls, BundleConsume(c) PROVE Goal
  <2>1. call[c].o \in Owners
    BY <1>15 DEF BundleConsume, CallsOK, Equipped, KeySteps
  <2>2. CallsOK' /\ served' \in 0..MaxCalls
    BY <1>15, <2>1, CallTypes DEF BundleConsume, KeySteps
  <2>3. pool' \subseteq Owners \X OtpIds /\ credit' \in [Owners \X OtpIds -> Int]
    <3>1. pool' \subseteq pool
      BY <1>15 DEF BundleConsume, ConsumeOne
    <3>2. UNCHANGED credit \/ \E k \in pool : credit' = [credit EXCEPT ![k] = @ - 1]
      BY <1>15 DEF BundleConsume
    <3>3. pool \subseteq Owners \X OtpIds /\ credit \in [Owners \X OtpIds -> Int]
      BY DEF TypeOK
    <3>4. credit' \in [Owners \X OtpIds -> Int]
      BY <3>2, <3>3
    <3> QED BY <3>1, <3>3, <3>4
  <2>4. refill' \in [Owners -> {"none", "due", "asked", "failed"}]
    BY <1>15, <2>1 DEF BundleConsume, TypeOK
  <2> QED BY <1>15, <2>2, <2>3, <2>4 DEF BundleConsume, TypeOK
<1>16. ASSUME NEW c \in Calls, BundleCount(c) PROVE Goal
  <2>1. call[c].o \in Owners
    BY <1>16 DEF BundleCount, CallsOK, Equipped, KeySteps
  <2>2. CallsOK' /\ served' \in 0..MaxCalls
    BY <1>16, <2>1, CallTypes DEF BundleCount, KeySteps
  <2> QED BY <1>16, <2>2 DEF BundleCount, TypeOK, rows, history
<1>17. ASSUME NEW c \in Calls, BundleCountFails(c) \/ \E ok \in BOOLEAN : BundleDispatch(c, ok) PROVE Goal
  <2>1. CallsOK' /\ served' \in 0..MaxCalls
    BY <1>17, CallTypes DEF BundleCountFails, BundleDispatch
  <2> QED BY <1>17, <2>1 DEF BundleCountFails, BundleDispatch, TypeOK, rows
<1>18. CASE UNCHANGED vars
  BY <1>18 DEF vars, rows, history, TypeOK, CallsOK
<1> QED BY <1>1, <1>2, <1>3, <1>4, <1>5, <1>6, <1>7, <1>8, <1>9, <1>10, <1>11, <1>12, <1>13, <1>14, <1>15,
           <1>16, <1>17, <1>18 DEF Next, DeviceStep, UploadStep, BundleStep

\* A step of c moves no other call.
LEMMA OthersStay ==
    ASSUME CallsOK, NEW c \in Calls, DeviceStep(c) \/ UploadStep(c) \/ BundleStep(c)
    PROVE  \A d \in Calls : d # c => call'[d] = call[d]
<1>1. (\E rec : Start(c, rec)) \/ Return(c) \/ (\E pc : Goto(c, pc)) => \A d \in Calls : d # c => call'[d] = call[d]
  BY CallWrites
<1>2. CASE DeviceStep(c)
  BY <1>1, <1>2 DEF DeviceStep, RegisterDevice, UpdateFind, UpdateDevice, BindFind, BindAccount, DeleteByAccount
<1>3. CASE UploadStep(c)
  BY <1>1, <1>3 DEF UploadStep, UploadIdentityKey, VerifySignedPreKey, DeactivateAll, Add, UploadOTPPreKeys
<1>4. CASE BundleStep(c)
  <2>1. CASE BundleIdentity(c) \/ BundleSigned(c)
    BY <1>1, <2>1 DEF BundleIdentity, BundleSigned, CallsOK
  <2> QED BY <1>1, <1>4, <2>1
    DEF BundleStep, BundleStart, BundleConsume, BundleCount, BundleCountFails, BundleDispatch
<1> QED BY <1>2, <1>3, <1>4


\* From where to where the steps that matter little to signed prekeys move c.
LEMMA Moves ==
    ASSUME CallsOK, NEW c \in Calls
    PROVE  /\ DeviceStep(c) => call[c].pc \in {"idle", "update", "bind"} /\ call'[c].pc \in {"idle", "update", "bind"}
           /\ \A o \in Owners, k \in SignKeys : UploadIdentityKey(c, o, k) => call[c].pc = "idle" /\ call'[c].pc = "idle"
           /\ \A o \in Owners, ids \in SUBSET OtpIds :
                  UploadOTPPreKeys(c, o, ids) => call[c].pc = "idle" /\ call'[c].pc = "idle"
           /\ \A o \in Owners, id \in SpkIds, by \in SignKeys :
                  VerifySignedPreKey(c, o, id, by) => call[c].pc = "idle" /\ call'[c].pc = "deactivate"
                                                      /\ call'[c].o = o /\ call'[c].by = by
                                                      /\ call'[c].checked = Nth(o)
           /\ \A u \in Users, given \in Devices \cup {NoRow} :
                  BundleStart(c, u, given) => call[c].pc = "idle" /\ call'[c].pc = "identity"
           /\ BundleIdentity(c) => call[c].pc = "identity" /\ call'[c].pc \in {"idle", "signed"}
           /\ BundleSigned(c) => call[c].pc = "signed" /\ call'[c].pc \in {"idle", "consume"}
<1>1. ASSUME NEW d \in Devices, NEW label \in Labels, UpdateFind(c, d, label)
      PROVE  call[c].pc = "idle" /\ call'[c].pc = "update"
  <2>1. call'[c] = [Returned EXCEPT !.pc = "update", !.o = d, !.id = label] /\ call[c].pc = "idle"
    BY <1>1, CallWrites DEF UpdateFind
  <2> QED BY <2>1 DEF Returned
<1>2. ASSUME NEW u \in Users, NEW d \in Devices, BindFind(c, u, d)
      PROVE  call[c].pc = "idle" /\ call'[c].pc = "bind"
  <2>1. call'[c] = [Returned EXCEPT !.pc = "bind", !.o = <<u, d>>] /\ call[c].pc = "idle"
    BY <1>2, CallWrites DEF BindFind
  <2> QED BY <2>1 DEF Returned
<1>3. ASSUME Start(c, Returned) PROVE call[c].pc = "idle" /\ call'[c].pc = "idle"
  BY <1>3, CallWrites DEF Returned
<1>4. ASSUME UpdateDevice(c) \/ BindAccount(c)
      PROVE  call[c].pc \in {"update", "bind"} /\ call'[c].pc = "idle"
  BY <1>4, CallWrites DEF UpdateDevice, BindAccount, Returned
<1>5. ASSUME DeviceStep(c) PROVE call[c].pc \in {"idle", "update", "bind"} /\ call'[c].pc \in {"idle", "update", "bind"}
  BY <1>1, <1>2, <1>3, <1>4, <1>5 DEF DeviceStep, RegisterDevice, DeleteByAccount
<1>6. ASSUME NEW o \in Owners, NEW id \in SpkIds, NEW by \in SignKeys, VerifySignedPreKey(c, o, id, by)
      PROVE  /\ call[c].pc = "idle" /\ call'[c].pc = "deactivate"
             /\ call'[c].o = o /\ call'[c].by = by /\ call'[c].checked = Nth(o)
  <2>1. /\ call'[c] = [Returned EXCEPT !.pc = "deactivate", !.o = o, !.id = id, !.by = by, !.checked = Nth(o)]
        /\ call[c].pc = "idle"
    BY <1>6, CallWrites DEF VerifySignedPreKey
  <2> QED BY <2>1 DEF Returned
<1>7. ASSUME NEW u \in Users, NEW given \in Devices \cup {NoRow}, BundleStart(c, u, given)
      PROVE  call[c].pc = "idle" /\ call'[c].pc = "identity"
  <2>1. PICK d : Start(c, [Returned EXCEPT !.pc = "identity", !.o = <<u, d>>])
    BY <1>7 DEF BundleStart
  <2>2. call'[c] = [Returned EXCEPT !.pc = "identity", !.o = <<u, d>>] /\ call[c].pc = "idle"
    BY <2>1, CallWrites
  <2> QED BY <2>2 DEF Returned
<1>8. ASSUME BundleIdentity(c) PROVE call[c].pc = "identity" /\ call'[c].pc \in {"idle", "signed"}
  BY <1>8 DEF BundleIdentity, Return, Returned, CallsOK, CallRecord
<1>9. ASSUME BundleSigned(c) PROVE call[c].pc = "signed" /\ call'[c].pc \in {"idle", "consume"}
  <2>0. call[c].pc = "signed"
    BY <1>9 DEF BundleSigned
  <2>1. CASE Return(c)
    BY <2>0, <2>1, CallWrites DEF Returned
  <2>2. ASSUME NEW r, call' = [call EXCEPT ![c].pc = "consume", ![c].id = r.id, ![c].by = r.by,
                                           ![c].checked = r.checked]
        PROVE  call'[c].pc = "consume"
    BY <2>2 DEF CallsOK, CallRecord
  <2> QED BY <1>9, <2>0, <2>1, <2>2 DEF BundleSigned
<1>10. (\A o \in Owners, k \in SignKeys : UploadIdentityKey(c, o, k) => Start(c, Returned))
       /\ \A o \in Owners, ids \in SUBSET OtpIds : UploadOTPPreKeys(c, o, ids) => Start(c, Returned)
  BY DEF UploadIdentityKey, UploadOTPPreKeys
<1> QED BY <1>3, <1>5, <1>6, <1>7, <1>8, <1>9, <1>10

\* Which steps touch the pool, the identity keys, and the signed prekeys other
\* than by deleting them.
LEMMA Writers ==
    ASSUME NEW c \in Calls, DeviceStep(c) \/ UploadStep(c) \/ BundleStep(c)
    PROVE  /\ \/ \E u \in Users, d \in Devices : DeleteByAccount(c, u, d)
              \/ \E o \in Owners, ids \in SUBSET OtpIds : UploadOTPPreKeys(c, o, ids)
              \/ BundleConsume(c)
              \/ UNCHANGED <<pool, credit>>
           /\ \/ \E u \in Users, d \in Devices : DeleteByAccount(c, u, d)
              \/ \E o \in Owners, k \in SignKeys : UploadIdentityKey(c, o, k)
              \/ UNCHANGED <<had, identity>>
           /\ DeactivateAll(c) \/ (\E ok \in BOOLEAN : Add(c, ok)) \/ signed' \subseteq signed
<1>1. ASSUME NEW u \in Users, NEW d \in Devices, DeleteByAccount(c, u, d) PROVE signed' \subseteq signed
  BY <1>1 DEF DeleteByAccount
<1>2. CASE DeviceStep(c)
  BY <1>1, <1>2 DEF DeviceStep, RegisterDevice, UpdateFind, UpdateDevice, BindFind, BindAccount, rows, history
<1>3. CASE UploadStep(c)
  <2>1. ASSUME NEW o \in Owners, NEW id \in SpkIds, NEW by \in SignKeys, VerifySignedPreKey(c, o, id, by)
        PROVE  UNCHANGED <<pool, credit, had, identity, signed>>
    BY <2>1 DEF VerifySignedPreKey, rows, history
  <2>2. CASE DeactivateAll(c) \/ \E ok \in BOOLEAN : Add(c, ok)
    BY <2>2 DEF DeactivateAll, Add
  <2>3. ASSUME NEW o \in Owners, NEW k \in SignKeys, UploadIdentityKey(c, o, k)
        PROVE  UNCHANGED <<pool, credit, signed>>
    BY <2>3 DEF UploadIdentityKey
  <2>4. ASSUME NEW o \in Owners, NEW ids \in SUBSET OtpIds, UploadOTPPreKeys(c, o, ids)
        PROVE  UNCHANGED <<had, identity, signed>>
    BY <2>4 DEF UploadOTPPreKeys
  <2> QED BY <1>3, <2>1, <2>2, <2>3, <2>4 DEF UploadStep
<1>4. CASE BundleStep(c)
  <2>1. UNCHANGED <<had, identity, signed>>
    BY <1>4 DEF BundleStep, BundleStart, BundleIdentity, BundleSigned, BundleConsume, BundleCount, BundleCountFails,
      BundleDispatch, rows, history
  <2>2. BundleConsume(c) \/ UNCHANGED <<pool, credit>>
    BY <1>4 DEF BundleStep, BundleStart, BundleIdentity, BundleSigned, BundleCount, BundleCountFails,
      BundleDispatch, rows, history
  <2> QED BY <2>1, <2>2
<1> QED BY <1>2, <1>3, <1>4

-----------------------------------------------------------------------------
\* One-time prekeys: a key enters the pool only if it is not there, and leaves
\* it when it is given away.
LEMMA CreditStep == TypeOK /\ CallsOK /\ Credit /\ [Next]_vars => Credit'
<1> SUFFICES ASSUME TypeOK, CallsOK, Credit, [Next]_vars PROVE Credit'
  OBVIOUS
<1>0. \A k \in Owners \X OtpIds : credit[k] \in Int
  BY DEF TypeOK
<1>1. ASSUME NEW c \in Calls, NEW u \in Users, NEW d \in Devices, DeleteByAccount(c, u, d) PROVE Credit'
  BY <1>0, <1>1 DEF DeleteByAccount, Credit
<1>2. ASSUME NEW c \in Calls, NEW o \in Owners, NEW ids \in SUBSET OtpIds, UploadOTPPreKeys(c, o, ids) PROVE Credit'
  <2> DEFINE new == {o} \X ids
  <2>1. pool' = pool \cup new /\ new \cap pool = {}
    BY <1>2 DEF UploadOTPPreKeys, AddBatch
  <2>2. \A k \in Owners \X OtpIds : credit'[k] = credit[k] + IF k \in new THEN 1 ELSE 0
    BY <1>2 DEF UploadOTPPreKeys
  <2> HIDE DEF new
  <2> QED BY <1>0, <2>1, <2>2 DEF Credit
<1>3. ASSUME NEW c \in Calls, BundleConsume(c) PROVE Credit'
  <2>1. CASE UNCHANGED <<pool, credit>>
    BY <2>1 DEF Credit
  <2>2. ASSUME NEW k \in pool, pool' = pool \ {k}, credit' = [credit EXCEPT ![k] = @ - 1] PROVE Credit'
    <3>1. k \in Owners \X OtpIds
      BY DEF TypeOK
    <3>2. \A x \in Owners \X OtpIds : credit'[x] = IF x = k THEN credit[k] - 1 ELSE credit[x]
      BY <2>2 DEF TypeOK
    <3> QED BY <1>0, <2>2, <3>1, <3>2 DEF Credit
  <2> QED BY <1>3, <2>1, <2>2 DEF BundleConsume, ConsumeOne
<1>4. CASE UNCHANGED <<pool, credit>>
  BY <1>4 DEF Credit
<1> QED BY <1>1, <1>2, <1>3, <1>4, Writers DEF vars, rows, history, Next

-----------------------------------------------------------------------------
\* Keys: the parts of Published.
PublishedKeys == \A o \in Owners : identity[o] # NoKey => Was(o, Len(had[o]), identity[o])
PublishedRows == \A r \in signed : Was(r.o, r.checked, r.by)
PublishedCall(c) ==
    /\ call[c].pc \in {"deactivate", "add", "consume", "count", "dispatch"}
           => Was(call[c].o, call[c].checked, call[c].by)
    /\ call[c].pc \in {"signed", "consume", "count", "dispatch"} => Was(call[c].o, call[c].read, call[c].key)

\* What was an owner's n-th identity key is that forever, and his key is the last.
LEMMA HadGrows ==
    ASSUME TypeOK, CallsOK, PublishedKeys, Next
    PROVE  PublishedKeys' /\ \A o \in Owners : \A n, k : Was(o, n, k) => Was(o, n, k)'
<1>1. ASSUME NEW c \in Calls, NEW o \in Owners, NEW k \in SignKeys, UploadIdentityKey(c, o, k)
      PROVE  PublishedKeys' /\ \A x \in Owners : \A n, j : Was(x, n, j) => Was(x, n, j)'
  <2>1. \A x \in Owners : identity'[x] = IF x = o THEN k ELSE identity[x]
    BY <1>1 DEF UploadIdentityKey, Upserted, TypeOK
  <2>2. CASE k = identity[o]
    <3>1. had' = had
      BY <1>1, <2>2 DEF UploadIdentityKey
    <3> QED BY <2>1, <2>2, <3>1 DEF PublishedKeys, Was
  <2>3. CASE k # identity[o]
    <3>1. \A x \in Owners : had'[x] = IF x = o THEN Append(had[o], k) ELSE had[x]
      BY <1>1, <2>3 DEF UploadIdentityKey, TypeOK
    <3>2. had[o] \in Seq(SignKeys)
      BY DEF TypeOK
    <3>3. PICK len \in Nat : len = Len(had[o])
      BY <3>2
    <3>4. /\ Len(Append(had[o], k)) = len + 1 /\ Append(had[o], k)[len + 1] = k
          /\ \A n \in 1..len : Append(had[o], k)[n] = had[o][n]
      BY <3>2, <3>3
    <3> DEFINE longer == Append(had[o], k)
    <3>5. \A n, j : Was(o, n, j) => Was(o, n, j)'
      <4>1. had'[o] = longer /\ Len(longer) = len + 1 /\ \A n \in 1..len : longer[n] = had[o][n]
        BY <3>1, <3>4
      <4>2. \A n \in 1..len : n \in 1..len + 1
        OBVIOUS
      <4> HIDE DEF longer
      <4> QED BY <3>3, <4>1, <4>2 DEF Was
    <3>6. Was(o, Len(had[o]), identity[o])'
      <4>1. had'[o] = longer /\ Len(longer) = len + 1 /\ longer[len + 1] = k /\ identity'[o] = k
        BY <2>1, <3>1, <3>4
      <4> HIDE DEF longer
      <4> QED BY <4>1 DEF Was
    <3>7. \A x \in Owners : x # o => had'[x] = had[x]
      BY <3>1
    <3> QED BY <2>1, <3>5, <3>6, <3>7 DEF PublishedKeys, Was
  <2> QED BY <2>2, <2>3
<1>2. ASSUME NEW c \in Calls, NEW u \in Users, NEW d \in Devices, DeleteByAccount(c, u, d)
      PROVE  PublishedKeys' /\ \A x \in Owners : \A n, j : Was(x, n, j) => Was(x, n, j)'
  BY <1>2 DEF DeleteByAccount, PublishedKeys, Was
<1>3. CASE UNCHANGED <<had, identity>>
  BY <1>3 DEF PublishedKeys, Was
<1> QED BY <1>1, <1>2, <1>3, Writers DEF Next

\* Every key that is stored, or read to be returned, is the one it says.
LEMMA PublishedStep == TypeOK /\ CallsOK /\ Published /\ [Next]_vars => Published'
<1> SUFFICES ASSUME TypeOK, CallsOK, Published, Next PROVE Published'
  <2>1. CASE UNCHANGED vars
    BY <2>1 DEF vars, rows, history, Published, Was
  <2> QED BY <2>1
<1>1. PublishedKeys /\ PublishedRows /\ \A c \in Calls : PublishedCall(c)
  BY DEF Published, PublishedKeys, PublishedRows, PublishedCall
<1>2. PublishedKeys' /\ \A o \in Owners : \A n, k : Was(o, n, k) => Was(o, n, k)'
  BY <1>1, HadGrows
<1>3. PublishedRows'
  <2>0. \A r \in signed : r.o \in Owners
    BY DEF TypeOK
  <2>1. signed' \subseteq signed => PublishedRows'
    BY <1>1, <1>2, <2>0 DEF PublishedRows
  <2>2. ASSUME NEW c \in Calls, DeactivateAll(c) PROVE PublishedRows'
    <3>1. \A r \in signed' : \E s \in signed : r.o = s.o /\ r.by = s.by /\ r.checked = s.checked
      BY <2>2 DEF DeactivateAll, Deactivated, TypeOK
    <3> QED BY <1>1, <1>2, <2>0, <3>1 DEF PublishedRows
  <2>3. ASSUME NEW c \in Calls, NEW ok \in BOOLEAN, Add(c, ok) PROVE PublishedRows'
    <3>1. Was(call[c].o, call[c].checked, call[c].by) /\ call[c].o \in Owners
      BY <1>1, <2>3 DEF Add, PublishedCall, CallsOK, Equipped, KeySteps
    <3>2. \A r \in signed' : r \in signed \/ (r.o = call[c].o /\ r.by = call[c].by /\ r.checked = call[c].checked)
      BY <2>3 DEF Add
    <3> QED BY <1>1, <1>2, <2>0, <3>1, <3>2 DEF PublishedRows
  <2> QED BY <2>1, <2>2, <2>3, Writers DEF Next
<1>4. ASSUME NEW c \in Calls, DeviceStep(c) \/ UploadStep(c) \/ BundleStep(c) PROVE \A d \in Calls : PublishedCall(d)'
  <2>1. \A d \in Calls : d # c => PublishedCall(d)'
    <3>1. \A d \in Calls : call[d].pc \in KeySteps => call[d].o \in Owners
      BY DEF CallsOK, Equipped
    <3> QED BY <1>1, <1>2, <1>4, <3>1, OthersStay DEF PublishedCall, KeySteps
  <2>2. call'[c].pc \in {"idle", "update", "bind", "identity"} => PublishedCall(c)'
    BY DEF PublishedCall
  <2>3. Return(c) => PublishedCall(c)'
    BY <2>2, CallWrites DEF Returned
  <2>4. ASSUME NEW pc \in {"add", "count", "dispatch"}, Goto(c, pc),
               call[c].pc = CASE pc = "add" -> "deactivate" [] pc = "count" -> "consume" [] OTHER -> "count"
        PROVE  PublishedCall(c)'
    <3>1. call[c].o \in Owners
      BY <2>4 DEF CallsOK, Equipped, KeySteps
    <3>2. /\ call'[c].pc = pc /\ call'[c].o = call[c].o /\ call'[c].by = call[c].by /\ call'[c].key = call[c].key
          /\ call'[c].checked = call[c].checked /\ call'[c].read = call[c].read
      BY <2>4, CallWrites
    <3> QED BY <1>1, <1>2, <2>4, <3>1, <3>2 DEF PublishedCall
  <2>5. ASSUME NEW o \in Owners, NEW id \in SpkIds, NEW by \in SignKeys, VerifySignedPreKey(c, o, id, by)
        PROVE  PublishedCall(c)'
    <3>1. Was(o, Nth(o), by)'
      BY <1>1, <1>2, <2>5, PreKeysAssumption
        DEF VerifySignedPreKey, FindByUserAndDevice, PublishedKeys, Nth, rows, history
    <3>2. call'[c].pc = "deactivate" /\ call'[c].o = o /\ call'[c].by = by /\ call'[c].checked = Nth(o)
      BY <2>5, Moves
    <3>3. Nth(o)' = Nth(o)
      BY <2>5 DEF VerifySignedPreKey, history, Nth
    <3> QED BY <3>1, <3>2, <3>3 DEF PublishedCall
  <2>6. CASE BundleIdentity(c)
    <3>1. call[c].o \in Owners /\ call[c] \in CallRecord
      BY <2>6 DEF BundleIdentity, CallsOK, Equipped, KeySteps
    <3>2. CASE identity[call[c].o] = NoKey
      BY <2>1, <2>3, <2>6, <3>2 DEF BundleIdentity, FindByUserAndDevice
    <3>3. CASE identity[call[c].o] # NoKey
      <4>1. /\ call'[c].pc = "signed" /\ call'[c].o = call[c].o
            /\ call'[c].key = identity[call[c].o] /\ call'[c].read = Nth(call[c].o)
        BY <2>6, <3>1, <3>3 DEF BundleIdentity, FindByUserAndDevice, CallsOK, CallRecord
      <4>2. PublishedCall(c)'
        BY <1>1, <1>2, <3>1, <3>3, <4>1 DEF PublishedCall, PublishedKeys, Nth
      <4> QED BY <2>1, <4>2
    <3> QED BY <3>2, <3>3
  <2>7. CASE BundleSigned(c)
    <3>1. call[c].o \in Owners /\ call[c] \in CallRecord /\ call[c].pc = "signed"
      BY <2>7 DEF BundleSigned, CallsOK, Equipped, KeySteps
    <3>2. CASE FindActive(call[c].o) = {}
      BY <2>1, <2>3, <2>7, <3>2 DEF BundleSigned
    <3>3. CASE FindActive(call[c].o) # {}
      <4>1. PICK r \in FindActive(call[c].o) :
                call' = [call EXCEPT ![c].pc = "consume", ![c].id = r.id, ![c].by = r.by, ![c].checked = r.checked]
        BY <2>7, <3>3 DEF BundleSigned
      <4>2. /\ call'[c].pc = "consume" /\ call'[c].o = call[c].o
            /\ call'[c].by = r.by /\ call'[c].checked = r.checked
            /\ call'[c].key = call[c].key /\ call'[c].read = call[c].read
        BY <3>1, <4>1 DEF CallsOK, CallRecord
      <4>3. Was(call[c].o, r.checked, r.by)
        BY <1>1, <3>1 DEF FindActive, PublishedRows
      <4>4. PublishedCall(c)'
        BY <1>1, <1>2, <3>1, <4>2, <4>3 DEF PublishedCall
      <4> QED BY <2>1, <4>4
    <3> QED BY <3>2, <3>3
  <2>8. CASE DeviceStep(c)
    BY <2>1, <2>2, <2>8, Moves
  <2>9. CASE UploadStep(c)
    <3>1. DeactivateAll(c) => PublishedCall(c)'
      BY <2>4 DEF DeactivateAll
    <3>2. ASSUME NEW o \in Owners, (\E k \in SignKeys : UploadIdentityKey(c, o, k))
                                    \/ \E ids \in SUBSET OtpIds : UploadOTPPreKeys(c, o, ids)
          PROVE  call'[c].pc = "idle"
      BY <3>2, Moves
    <3>3. \A ok \in BOOLEAN : Add(c, ok) => PublishedCall(c)'
      BY <2>3 DEF Add
    <3> QED BY <2>1, <2>2, <2>5, <2>9, <3>1, <3>2, <3>3 DEF UploadStep
  <2>10. CASE BundleStep(c)
    <3>1. BundleConsume(c) \/ BundleCount(c) => PublishedCall(c)'
      BY <2>3, <2>4 DEF BundleConsume, BundleCount
    <3>2. ASSUME NEW u \in Users, NEW given \in Devices \cup {NoRow}, BundleStart(c, u, given)
          PROVE  call'[c].pc = "identity"
      BY <3>2, Moves
    <3>3. BundleCountFails(c) \/ (\E ok \in BOOLEAN : BundleDispatch(c, ok)) => PublishedCall(c)'
      BY <2>3 DEF BundleCountFails, BundleDispatch
    <3> QED BY <2>1, <2>2, <2>6, <2>7, <2>10, <3>1, <3>2, <3>3 DEF BundleStep
  <2> QED BY <1>4, <2>8, <2>9, <2>10
<1> QED BY <1>2, <1>3, <1>4 DEF Next, Published, PublishedKeys, PublishedRows, PublishedCall

-----------------------------------------------------------------------------
\* Signed prekeys: steps that neither touch them nor begin or end an insert.
LEMMA RotationKept ==
    ASSUME CallsOK, OneRotation, RotationDone, NEW c \in Calls,
           \A d \in Calls : d # c => call'[d] = call[d],
           call[c].pc # "add", call'[c].pc # "add", UNCHANGED <<signed, rotation, overlap>>
    PROVE  OneRotation' /\ RotationDone'
<1>1. \A o : At("add", o)' = At("add", o)
  BY DEF At
<1>2. \A o : FindActive(o)' = FindActive(o)
  BY DEF FindActive
<1> QED BY <1>1, <1>2 DEF OneRotation, RotationDone

\* Rotations leave one active key, as long as they do not overlap.
LEMMA RotationStep ==
    TypeOK /\ CallsOK /\ OneRotation /\ RotationDone /\ [Next]_vars => OneRotation' /\ RotationDone'
<1> SUFFICES ASSUME TypeOK, CallsOK, OneRotation, RotationDone, [Next]_vars PROVE OneRotation' /\ RotationDone'
  OBVIOUS
<1> DEFINE Goal == OneRotation' /\ RotationDone'
<1>1. ASSUME NEW c \in Calls, DeactivateAll(c) PROVE Goal
  <2>1. PICK o \in Owners : o = call[c].o
    BY <1>1 DEF DeactivateAll, CallsOK, Equipped, KeySteps
  <2>2. call[c].pc = "deactivate" /\ call'[c].pc = "add" /\ call'[c].o = o
    BY <1>1, <2>1, CallWrites DEF DeactivateAll
  <2>3. \A d \in Calls : d # c => call'[d] = call[d]
    BY <1>1, CallWrites DEF DeactivateAll
  <2>4. At("add", o)' = At("add", o) \cup {c} /\ \A x : x # o => At("add", x)' = At("add", x)
    BY <2>1, <2>2, <2>3 DEF At
  <2>5. FindActive(o)' = {} /\ \A x : x # o => FindActive(x)' = FindActive(x)
    <3>1. signed' = Deactivated(o)
      BY <1>1, <2>1 DEF DeactivateAll
    <3>2. \A r \in signed' : r.o = o => ~r.active
      BY <3>1 DEF Deactivated, TypeOK
    <3>3. \A r : r.o # o => (r \in signed' <=> r \in signed)
      BY <3>1 DEF Deactivated, TypeOK
    <3> QED BY <3>2, <3>3 DEF FindActive
  <2>6. overlap' = IF At("add", o) # {} THEN overlap \cup {o} ELSE overlap \ {o}
    BY <1>1, <2>1 DEF DeactivateAll
  <2>7. UNCHANGED rotation
    BY <1>1 DEF DeactivateAll
  <2> QED BY <2>4, <2>5, <2>6, <2>7 DEF OneRotation, RotationDone
<1>2. ASSUME NEW c \in Calls, NEW ok \in BOOLEAN, Add(c, ok) PROVE Goal
  <2>1. PICK o \in Owners : o = call[c].o
    BY <1>2 DEF Add, CallsOK, Equipped, KeySteps
  <2>2. call[c].pc = "add" /\ call'[c] = Returned /\ UNCHANGED overlap
    BY <1>2, CallWrites DEF Add
  <2>3. \A d \in Calls : d # c => call'[d] = call[d]
    BY <1>2, CallWrites DEF Add
  <2>4. At("add", o)' = At("add", o) \ {c} /\ c \in At("add", o) /\ \A x : x # o => At("add", x)' = At("add", x)
    BY <2>1, <2>2, <2>3 DEF At, Returned
  <2> DEFINE new == [o |-> o, id |-> call[c].id, by |-> call[c].by, active |-> TRUE, checked |-> call[c].checked]
  <2>5. CASE signed' = signed \cup {new} /\ rotation' = [rotation EXCEPT ![o] = "done"]
    <3>1. FindActive(o)' = FindActive(o) \cup {new} /\ \A x : x # o => FindActive(x)' = FindActive(x)
      BY <2>5 DEF FindActive
    <3>2. \A x \in Owners : x # o => rotation'[x] = rotation[x]
      BY <2>5 DEF TypeOK
    <3> HIDE DEF new
    <3> QED BY <2>2, <2>4, <3>1, <3>2 DEF OneRotation, RotationDone
  <2>6. CASE signed' = signed /\ rotation' = [rotation EXCEPT ![o] = "broken"]
    <3>1. \A x : FindActive(x)' = FindActive(x)
      BY <2>6 DEF FindActive
    <3>2. \A x \in Owners : rotation'[x] = IF x = o THEN "broken" ELSE rotation[x]
      BY <2>6 DEF TypeOK
    <3> QED BY <2>2, <2>4, <3>1, <3>2 DEF OneRotation, RotationDone
  <2> QED BY <1>2, <2>1, <2>5, <2>6 DEF Add
<1>3. ASSUME NEW c \in Calls, NEW u \in Users, NEW d \in Devices, DeleteByAccount(c, u, d) PROVE Goal
  <2>1. call[c].pc = "idle" /\ call'[c].pc = "idle" /\ \A x \in Calls : x # c => call'[x] = call[x]
    BY <1>3, CallWrites DEF DeleteByAccount, Returned
  <2>2. \A o : At("add", o)' = At("add", o)
    BY <2>1 DEF At
  <2>3. \A o \in Owners : /\ FindActive(o)' \subseteq FindActive(o)
                          /\ o \notin Users \X {d} => FindActive(o)' = FindActive(o)
    BY <1>3 DEF FindActive, DeleteByAccount
  <2>4. \A o \in Owners : rotation'[o] = IF o \in Users \X {d} THEN "none" ELSE rotation[o]
    BY <1>3 DEF DeleteByAccount
  <2>5. UNCHANGED overlap
    BY <1>3 DEF DeleteByAccount
  <2>6. OneRotation'
    BY <2>2, <2>3, <2>5 DEF OneRotation
  <2>7. RotationDone'
    BY <2>2, <2>3, <2>4 DEF RotationDone
  <2> QED BY <2>6, <2>7
<1>4. ASSUME NEW c \in Calls, DeviceStep(c) \/ UploadStep(c) \/ BundleStep(c), call[c].pc # "add", call'[c].pc # "add",
             UNCHANGED <<signed, rotation, overlap>>
      PROVE  Goal
  BY <1>4, OthersStay, RotationKept
<1>5. ASSUME NEW c \in Calls, DeviceStep(c) PROVE Goal
  <2>1. (\E u \in Users, d \in Devices : DeleteByAccount(c, u, d)) \/ UNCHANGED <<signed, rotation, overlap>>
    BY <1>5 DEF DeviceStep, RegisterDevice, UpdateFind, UpdateDevice, BindFind, BindAccount, rows, history
  <2> QED BY <1>3, <1>4, <1>5, <2>1, Moves
<1>6. ASSUME NEW c \in Calls, UploadStep(c) PROVE Goal
  <2>1. ASSUME NEW o \in Owners, (\E k \in SignKeys : UploadIdentityKey(c, o, k))
                                  \/ \E ids \in SUBSET OtpIds : UploadOTPPreKeys(c, o, ids)
        PROVE  Goal
    <3>1. UNCHANGED <<signed, rotation, overlap>>
      BY <2>1 DEF UploadIdentityKey, UploadOTPPreKeys
    <3> QED BY <1>4, <1>6, <2>1, <3>1, Moves
  <2>2. ASSUME NEW o \in Owners, NEW id \in SpkIds, NEW by \in SignKeys, VerifySignedPreKey(c, o, id, by) PROVE Goal
    <3>1. UNCHANGED <<signed, rotation, overlap>>
      BY <2>2 DEF VerifySignedPreKey, rows, history
    <3> QED BY <1>4, <1>6, <2>2, <3>1, Moves
  <2> QED BY <1>1, <1>2, <1>6, <2>1, <2>2 DEF UploadStep
<1>7. ASSUME NEW c \in Calls, BundleStep(c) PROVE Goal
  <2>1. UNCHANGED <<signed, rotation, overlap>>
    BY <1>7 DEF BundleStep, BundleStart, BundleIdentity, BundleSigned, BundleConsume, BundleCount, BundleCountFails,
      BundleDispatch, rows, history
  <2>2. CASE BundleConsume(c) \/ BundleCount(c) \/ BundleCountFails(c) \/ \E ok \in BOOLEAN : BundleDispatch(c, ok)
    <3>1. call[c].pc # "add" /\ call'[c].pc # "add"
      BY <2>2, CallWrites DEF BundleConsume, BundleCount, BundleCountFails, BundleDispatch, Returned
    <3> QED BY <1>4, <1>7, <2>1, <3>1
  <2>3. CASE BundleIdentity(c) \/ BundleSigned(c)
            \/ \E u \in Users, given \in Devices \cup {NoRow} : BundleStart(c, u, given)
    BY <1>4, <1>7, <2>1, <2>3, Moves
  <2> QED BY <1>7, <2>2, <2>3 DEF BundleStep
<1>8. CASE UNCHANGED vars
  BY <1>8 DEF vars, rows, history, OneRotation, RotationDone, FindActive, At
<1> QED BY <1>5, <1>6, <1>7, <1>8 DEF Next

-----------------------------------------------------------------------------
\* The report of a low pool: steps that leave the pool and the reports alone.
LEMMA ReportsKept ==
    ASSUME CallsOK, LowPoolIsReported, NEW c \in Calls,
           \A d \in Calls : d # c => call'[d] = call[d],
           call[c].pc \notin {"count", "dispatch"}, UNCHANGED <<pool, refill>>
    PROVE  LowPoolIsReported'
<1>1. \A o : At("count", o) \cup At("dispatch", o) \subseteq At("count", o)' \cup At("dispatch", o)'
  BY DEF At
<1>2. \A o : CountAvailable(o)' = CountAvailable(o)
  BY DEF CountAvailable
<1> QED BY <1>1, <1>2 DEF LowPoolIsReported

\* A fetch that gave a key away counts, and a low count is dispatched.
LEMMA ReportStep == TypeOK /\ CallsOK /\ LowPoolIsReported /\ [Next]_vars => LowPoolIsReported'
<1> SUFFICES ASSUME TypeOK, CallsOK, LowPoolIsReported, [Next]_vars PROVE LowPoolIsReported'
  OBVIOUS
<1>1. ASSUME NEW c \in Calls, DeviceStep(c) PROVE LowPoolIsReported'
  <2>1. \A d \in Calls : d # c => call'[d] = call[d]
    BY <1>1, OthersStay
  <2>2. call[c].pc \notin {"count", "dispatch"}
    BY <1>1, Moves
  <2>3. ASSUME NEW u \in Users, NEW d \in Devices, DeleteByAccount(c, u, d) PROVE LowPoolIsReported'
    <3>1. \A o : At("count", o) \cup At("dispatch", o) \subseteq At("count", o)' \cup At("dispatch", o)'
      BY <2>1, <2>2 DEF At
    <3>2. \A o \in Owners : o \in Users \X {d} => refill'[o] = "none"
      BY <2>3 DEF DeleteByAccount
    <3>3. \A o \in Owners : o \notin Users \X {d} => refill'[o] = refill[o] /\ CountAvailable(o)' = CountAvailable(o)
      <4>1. \A o \in Owners : o \notin Users \X {d} => {k \in pool' : k[1] = o} = {k \in pool : k[1] = o}
        BY <2>3 DEF DeleteByAccount
      <4> QED BY <2>3, <4>1 DEF DeleteByAccount, CountAvailable
    <3> QED BY <3>1, <3>2, <3>3 DEF LowPoolIsReported
  <2>4. CASE UNCHANGED <<pool, refill>>
    BY <2>1, <2>2, <2>4, ReportsKept
  <2> QED BY <1>1, <2>3, <2>4
    DEF DeviceStep, RegisterDevice, UpdateFind, UpdateDevice, BindFind, BindAccount, rows, history
<1>2. ASSUME NEW c \in Calls, UploadStep(c) PROVE LowPoolIsReported'
  <2>1. \A d \in Calls : d # c => call'[d] = call[d]
    BY <1>2, OthersStay
  <2>2. call[c].pc \notin {"count", "dispatch"}
    BY <1>2, Moves DEF UploadStep, DeactivateAll, Add
  <2>3. ASSUME NEW x \in Owners, NEW ids \in SUBSET OtpIds, UploadOTPPreKeys(c, x, ids) PROVE LowPoolIsReported'
    <3>1. \A o : At("count", o) \cup At("dispatch", o) \subseteq At("count", o)' \cup At("dispatch", o)'
      BY <2>1, <2>2 DEF At
    <3>2. \A o \in Owners : refill'[o] = IF o = x THEN "none" ELSE refill[o]
      BY <2>3 DEF UploadOTPPreKeys, TypeOK
    <3>3. \A o \in Owners : o # x => CountAvailable(o)' = CountAvailable(o)
      <4>1. \A o \in Owners : o # x => {k \in pool' : k[1] = o} = {k \in pool : k[1] = o}
        BY <2>3 DEF UploadOTPPreKeys
      <4> QED BY <4>1 DEF CountAvailable
    <3> QED BY <3>1, <3>2, <3>3 DEF LowPoolIsReported
  <2>4. CASE UNCHANGED <<pool, refill>>
    BY <2>1, <2>2, <2>4, ReportsKept
  <2> QED BY <1>2, <2>3, <2>4 DEF UploadStep, UploadIdentityKey, VerifySignedPreKey, DeactivateAll, Add, rows, history
<1>3. ASSUME NEW c \in Calls, BundleStep(c) PROVE LowPoolIsReported'
  <2>1. \A d \in Calls : d # c => call'[d] = call[d]
    BY <1>3, OthersStay
  <2>2. ASSUME NEW u \in Users, NEW given \in Devices \cup {NoRow}, BundleStart(c, u, given) PROVE LowPoolIsReported'
    <3>1. call[c].pc = "idle" /\ UNCHANGED <<pool, refill>>
      BY <2>2, Moves DEF BundleStart, rows, history
    <3> QED BY <2>1, <3>1, ReportsKept
  <2>3. CASE BundleIdentity(c) \/ BundleSigned(c)
    <3>1. call[c].pc \notin {"count", "dispatch"} /\ UNCHANGED <<pool, refill>>
      BY <2>3 DEF BundleIdentity, BundleSigned, rows, history
    <3> QED BY <2>1, <3>1, ReportsKept
  <2>4. CASE BundleConsume(c)
    <3>1. PICK x \in Owners : x = call[c].o
      BY <2>4 DEF BundleConsume, CallsOK, Equipped, KeySteps
    <3>2. call[c].pc = "consume" /\ call'[c].pc = "count" /\ call'[c].o = x
      BY <2>4, <3>1, CallWrites DEF BundleConsume
    <3>3. c \in At("count", x)'
      BY <3>2 DEF At
    <3>4. \A o : At("count", o) \cup At("dispatch", o) \subseteq At("count", o)' \cup At("dispatch", o)'
      BY <2>1, <3>2 DEF At
    <3>5. \A o \in Owners : o # x => refill'[o] = refill[o] /\ CountAvailable(o)' = CountAvailable(o)
      <4>1. \A o \in Owners : o # x => {k \in pool' : k[1] = o} = {k \in pool : k[1] = o}
        BY <2>4, <3>1 DEF BundleConsume, ConsumeOne
      <4>2. \A o \in Owners : o # x => refill'[o] = refill[o]
        BY <2>4, <3>1 DEF BundleConsume, TypeOK
      <4> QED BY <4>1, <4>2 DEF CountAvailable
    <3> QED BY <3>3, <3>4, <3>5 DEF LowPoolIsReported
  <2>5. CASE BundleCount(c)
    <3>1. PICK x \in Owners : x = call[c].o
      BY <2>5 DEF BundleCount, CallsOK, Equipped, KeySteps
    <3>2. \A o : o # x => At("count", o) \cup At("dispatch", o) \subseteq At("count", o)' \cup At("dispatch", o)'
      BY <2>1, <3>1 DEF At
    <3>3. CountAvailable(x) < Threshold => c \in At("dispatch", x)'
      BY <2>5, <3>1, CallWrites DEF BundleCount, At
    <3>4. refill' = refill /\ \A o : CountAvailable(o)' = CountAvailable(o)
      BY <2>5 DEF BundleCount, CountAvailable, rows, history
    <3> QED BY <3>2, <3>3, <3>4 DEF LowPoolIsReported
  <2>6. CASE BundleCountFails(c) \/ \E ok \in BOOLEAN : BundleDispatch(c, ok)
    <3>1. PICK x \in Owners : x = call[c].o
      BY <2>6 DEF BundleCountFails, BundleDispatch, CallsOK, Equipped, KeySteps
    <3>2. \A o : o # x => At("count", o) \cup At("dispatch", o) \subseteq At("count", o)' \cup At("dispatch", o)'
      BY <2>1, <3>1 DEF At
    <3>3. /\ \A o \in Owners : o # x => refill'[o] = refill[o]
          /\ refill'[x] \in {"asked", "failed"}
      BY <2>6, <3>1 DEF BundleCountFails, BundleDispatch, TypeOK
    <3>4. \A o : CountAvailable(o)' = CountAvailable(o)
      BY <2>6 DEF BundleCountFails, BundleDispatch, CountAvailable, rows
    <3> QED BY <3>2, <3>3, <3>4 DEF LowPoolIsReported
  <2> QED BY <1>3, <2>2, <2>3, <2>4, <2>5, <2>6 DEF BundleStep
<1>4. CASE UNCHANGED vars
  BY <1>4 DEF vars, rows, history, LowPoolIsReported, CountAvailable, At
<1> QED BY <1>1, <1>2, <1>3, <1>4 DEF Next

-----------------------------------------------------------------------------
\* The inductive invariant.
LEMMA IInvStep == IInv /\ [Next]_vars => IInv'
BY TypeStep, CreditStep, PublishedStep, RotationStep, ReportStep DEF IInv

\* The inductive invariant holds in every reachable state.
THEOREM Invariant == Spec => []IInv
BY IInvInit, IInvStep, PTL DEF Spec

\* The rows keep their types: a key row always belongs to a user's device.
THEOREM TypeCorrect == Spec => []TypeOK
<1>1. IInv => TypeOK
  BY DEF IInv
<1> QED BY <1>1, Invariant, PTL

\* However fetches, uploads and deletions of devices interleave, a one-time
\* prekey is given away at most once for each time it was uploaded.
THEOREM NeverGivenTwice == Spec => []GivenAwayOnce
<1>1. IInv => GivenAwayOnce
  <2> SUFFICES ASSUME IInv, NEW k \in Owners \X OtpIds PROVE credit[k] >= 0
    BY DEF GivenAwayOnce
  <2>1. credit[k] \in Int /\ credit[k] >= IF k \in pool THEN 1 ELSE 0
    BY DEF IInv, Credit, TypeOK
  <2> QED BY <2>1
<1> QED BY <1>1, Invariant, PTL

\* A bundle's signed prekey verifies with the identity key in the bundle, unless the
\* owner's identity key was replaced, or deleted with its device and published again,
\* between the check of the one and the read of the other.
THEOREM BundlesVerify == Spec => []BundleVerifies
<1>1. IInv => BundleVerifies
  <2> SUFFICES ASSUME IInv, NEW c \in Calls, call[c].pc \in {"consume", "count", "dispatch"},
                      call[c].checked = call[c].read
               PROVE  call[c].by = call[c].key
    BY DEF BundleVerifies
  <2>1. Was(call[c].o, call[c].checked, call[c].by) /\ Was(call[c].o, call[c].read, call[c].key)
    BY DEF IInv, Published
  <2> QED BY <2>1 DEF Was
<1> QED BY <1>1, Invariant, PTL

\* A completed rotation leaves an active signed prekey until the next one begins,
\* and exactly one unless rotations of the same owner overlapped.
THEOREM RotationsKeepOne == Spec => []RotationKeepsOneActive
<1>1. IInv => RotationKeepsOneActive
  <2> SUFFICES ASSUME IInv, NEW o \in Owners
               PROVE  /\ rotation[o] = "done" => FindActive(o) # {} \/ At("add", o) # {}
                      /\ Cardinality(FindActive(o)) > 1 => o \in overlap
    BY DEF RotationKeepsOneActive
  <2>1. rotation[o] = "done" => FindActive(o) # {} \/ At("add", o) # {}
    BY DEF IInv, RotationDone
  <2>2. ASSUME o \notin overlap PROVE ~(Cardinality(FindActive(o)) > 1)
    <3>1. CASE FindActive(o) = {}
      BY <3>1, FS_EmptySet
    <3>2. ASSUME NEW r \in FindActive(o) PROVE ~(Cardinality(FindActive(o)) > 1)
      <4>1. FindActive(o) = {r}
        BY <2>2 DEF IInv, OneRotation
      <4>2. Cardinality(FindActive(o)) = 1
        BY <4>1, FS_Singleton
      <4> QED BY <4>2
    <3> QED BY <3>1, <3>2
  <2> QED BY <2>1, <2>2
<1> QED BY <1>1, Invariant, PTL

\* A pool that fetches have left below the threshold is reported to its owner, or
\* a fetch is about to.
THEOREM LowPoolsReported == Spec => []LowPoolIsReported
<1>1. IInv => LowPoolIsReported
  BY DEF IInv
<1> QED BY <1>1, Invariant, PTL
=============================================================================

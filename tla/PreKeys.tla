------------------------------ MODULE PreKeys ------------------------------
(***************************************************************************)
(* Devices and the keys published for them (internal/application/e2ee and  *)
(* internal/application/device with their Postgres repositories): identity *)
(* keys, signed prekeys, the pool of one-time prekeys, and the key bundle  *)
(* that another user fetches to start a session.                           *)
(*                                                                         *)
(* No use case here runs in a transaction except the registration of a     *)
(* device, which is one statement that matters: every SQL statement is a   *)
(* step of its own, and a call goes on with rows it read while other calls *)
(* replace or delete them.  Deleting a device cascades to all its keys.    *)
(*                                                                         *)
(* A key is abstracted to the identity key that signed it and to the id    *)
(* its client gave it.  A statement that fails before the first write of a *)
(* call changes nothing and is not an action.  A signed prekey, and a call *)
(* that fetches a bundle, also carry, as history, which of its owner's     *)
(* identity keys was read: checked is the number of the one that a signed  *)
(* prekey was verified with, read of the one that a bundle returns.        *)
(***************************************************************************)
EXTENDS Integers, FiniteSets, Sequences

CONSTANTS
    Users,      \* users, each the only one of its account
    Devices,    \* device ids, chosen by the clients
    Labels,     \* name and platform of a device
    SignKeys,   \* identity keys (DH and signing key together)
    SpkIds,     \* key ids of signed prekeys
    OtpIds,     \* key ids of one-time prekeys
    Calls,      \* requests served at the same time
    Threshold,  \* OTPReplenishThreshold
    MaxCalls,   \* bound: requests served altogether
    NoKey, NoRow

ASSUME PreKeysAssumption ==
    /\ Threshold \in Nat /\ MaxCalls \in Nat
    /\ NoKey \notin SignKeys /\ NoRow \notin Labels

Owners == Users \X Devices

VARIABLES
    device,    \* devices: the label of each device, or NoRow
    bound,     \* accounts_devices
    identity,  \* user_identity_keys: the key of each owner, or NoKey
    signed,    \* user_signed_pre_keys: [o, id, by, active], and checked
    pool,      \* user_one_time_pre_keys: <<owner, key id>>
    call,      \* requests in progress
    served,    \* requests started so far
    had,       \* history: the identity keys each owner has had, in order
    credit,    \* history: uploads of a one-time prekey minus times it was given away
    rotation,  \* history: how the owner's last rotation ended: none, done, broken
    overlap,   \* history: owners two of whose rotations overlapped
    refill     \* history: after a key was given away: due, asked, failed; else none

rows == <<device, bound, identity, signed, pool>>
history == <<had, credit, rotation, overlap, refill>>
vars == <<rows, call, served, history>>

Returned == [pc |-> "idle", o |-> NoRow, id |-> NoRow, by |-> NoKey, key |-> NoKey,
             checked |-> 0, read |-> 0]

Start(c, rec) ==
    /\ call[c].pc = "idle" /\ served < MaxCalls
    /\ served' = served + 1
    /\ call' = [call EXCEPT ![c] = rec]
Goto(c, pc) == call' = [call EXCEPT ![c].pc = pc] /\ UNCHANGED served
Return(c) == call' = [call EXCEPT ![c] = Returned] /\ UNCHANGED served
At(pc, o) == {c \in Calls : call[c].pc = pc /\ call[c].o = o}

\* Queries: the device's row exists; the identity key of an owner, the active
\* signed prekeys, of which the first row found is taken, and the pool's size.
Exists(d) == device[d] # NoRow
FindByUserAndDevice(o) == identity[o]
Nth(o) == Len(had[o])
FindActive(o) == {r \in signed : r.o = o /\ r.active}
CountAvailable(o) == Cardinality({k \in pool : k[1] = o})

-----------------------------------------------------------------------------
\* Devices

\* Insert, unless the id exists; update, unless the row is gone.
Created(d, label) == [device EXCEPT ![d] = IF Exists(d) THEN @ ELSE label]
Updated(d, label) == [device EXCEPT ![d] = IF Exists(d) THEN label ELSE @]

\* RegisterUseCase: for an id that exists the caller is given the existing
\* device, which is not changed.
RegisterDevice(c, d, label) ==
    /\ Start(c, Returned)
    /\ device' = Created(d, label)
    /\ UNCHANGED <<bound, identity, signed, pool, history>>

\* UpdateDeviceUseCase: the route is public; the update of a device that has
\* been deleted since changes no row and is reported as a success.
UpdateFind(c, d, label) ==
    /\ Exists(d)
    /\ Start(c, [Returned EXCEPT !.pc = "update", !.o = d, !.id = label])
    /\ UNCHANGED <<rows, history>>

UpdateDevice(c) ==
    /\ call[c].pc = "update"
    /\ device' = Updated(call[c].o, call[c].id)
    /\ Return(c)
    /\ UNCHANGED <<bound, identity, signed, pool, history>>

\* The pair is inserted; the foreign key refuses it if the device is gone.
Paired(o) == IF Exists(o[2]) THEN bound \cup {o} ELSE bound

\* BindAccountUseCase: find the device, then insert.
BindFind(c, u, d) ==
    /\ Exists(d)
    /\ Start(c, [Returned EXCEPT !.pc = "bind", !.o = <<u, d>>])
    /\ UNCHANGED <<rows, history>>

BindAccount(c) ==
    /\ call[c].pc = "bind"
    /\ bound' = Paired(call[c].o)
    /\ Return(c)
    /\ UNCHANGED <<device, identity, signed, pool, history>>

\* The condition of the statement that deletes a device.
Deletable(u, d) == Exists(d) /\ <<u, d>> \in bound

\* DeleteDeviceUseCase: one statement, for any account bound to the device; it
\* takes the keys of every user of the device with it, and their sessions (see
\* Session).
DeleteByAccount(c, u, d) ==
    LET gone == Users \X {d} IN
    /\ Deletable(u, d)
    /\ Start(c, Returned)
    /\ device' = [device EXCEPT ![d] = NoRow]
    /\ bound' = bound \ gone
    /\ identity' = [o \in Owners |-> IF o \in gone THEN NoKey ELSE identity[o]]
    /\ signed' = {r \in signed : r.o \notin gone}
    /\ pool' = {k \in pool : k[1] \notin gone}
    /\ credit' = [k \in Owners \X OtpIds |-> IF k[1] \in gone THEN 0 ELSE credit[k]]
    /\ rotation' = [o \in Owners |-> IF o \in gone THEN "none" ELSE rotation[o]]
    /\ refill' = [o \in Owners |-> IF o \in gone THEN "none" ELSE refill[o]]
    /\ UNCHANGED <<had, overlap>>

-----------------------------------------------------------------------------
\* Publishing keys

\* Insert or replace the row.
Upserted(o, k) == [identity EXCEPT ![o] = k]

\* UploadIdentityKeyUseCase.  The signed prekey made for the old identity key
\* stays.
UploadIdentityKey(c, o, k) ==
    /\ Exists(o[2])
    /\ Start(c, Returned)
    /\ identity' = Upserted(o, k)
    /\ had' = IF k = identity[o] THEN had ELSE [had EXCEPT ![o] = Append(@, k)]
    /\ UNCHANGED <<device, bound, signed, pool, credit, rotation, overlap, refill>>

\* Deactivate the owner's keys; the insert of a new one, which the schema
\* refuses for an id the owner has used before and for a device that is gone.
Deactivated(o) == {IF r.o = o THEN [r EXCEPT !.active = FALSE] ELSE r : r \in signed}
Insertable(o, id) == Exists(o[2]) /\ ~\E r \in signed : r.o = o /\ r.id = id

\* Mutant: the signature is verified with a key of any device of the user.
VerifySignedPreKey_AnyDevice(c, o, id, by) ==
    /\ \E d \in Devices : identity[<<o[1], d>>] = by
    /\ Start(c, [Returned EXCEPT !.pc = "deactivate", !.o = o, !.id = id, !.by = by, !.checked = Nth(o)])
    /\ UNCHANGED <<rows, history>>

\* UploadSignedPreKeyUseCase: read the identity key and verify the signature,
\* deactivate the owner's keys, add the new one as active.
VerifySignedPreKey(c, o, id, by) ==
    /\ FindByUserAndDevice(o) = by
    /\ Start(c, [Returned EXCEPT !.pc = "deactivate", !.o = o, !.id = id, !.by = by, !.checked = Nth(o)])
    /\ UNCHANGED <<rows, history>>

\* Mutant: only the row with the id of the new key is deactivated.
DeactivateAll_SameId(c) ==
    LET o == call[c].o IN
    /\ call[c].pc = "deactivate"
    /\ signed' = {IF r.o = o /\ r.id = call[c].id THEN [r EXCEPT !.active = FALSE] ELSE r : r \in signed}
    /\ overlap' = IF At("add", o) # {} THEN overlap \cup {o} ELSE overlap \ {o}
    /\ Goto(c, "add")
    /\ UNCHANGED <<device, bound, identity, pool, had, credit, rotation, refill>>

DeactivateAll(c) ==
    LET o == call[c].o IN
    /\ call[c].pc = "deactivate"
    /\ signed' = Deactivated(o)
    /\ overlap' = IF At("add", o) # {} THEN overlap \cup {o} ELSE overlap \ {o}
    /\ Goto(c, "add")
    /\ UNCHANGED <<device, bound, identity, pool, had, credit, rotation, refill>>

\* If the insert is refused, or the statement or the process fails, the old key
\* is inactive already.
Add(c, ok) ==
    LET o == call[c].o
        done == ok /\ Insertable(o, call[c].id)
    IN
    /\ call[c].pc = "add"
    /\ signed' = IF done THEN signed \cup {[o |-> o, id |-> call[c].id, by |-> call[c].by,
                                            active |-> TRUE, checked |-> call[c].checked]}
                 ELSE signed
    /\ rotation' = [rotation EXCEPT ![o] = IF done THEN "done" ELSE "broken"]
    /\ Return(c)
    /\ UNCHANGED <<device, bound, identity, pool, had, credit, overlap, refill>>

\* All rows or, if the device is gone or an id is in the pool already, none.
AddBatch(o, new) == Exists(o[2]) /\ new \cap pool = {}

\* UploadOTPPreKeysUseCase.  The count it returns is read afterwards and changes
\* nothing, as is the one of CountOTPPreKeysUseCase.
UploadOTPPreKeys(c, o, ids) ==
    LET new == {o} \X ids IN
    /\ AddBatch(o, new)
    /\ Start(c, Returned)
    /\ pool' = pool \cup new
    /\ credit' = [k \in Owners \X OtpIds |-> credit[k] + IF k \in new THEN 1 ELSE 0]
    /\ refill' = [refill EXCEPT ![o] = "none"]
    /\ UNCHANGED <<device, bound, identity, signed, had, rotation, overlap>>

-----------------------------------------------------------------------------
\* GetKeyBundleUseCase

\* Without a device id: the device of the first identity key found, in whatever
\* order the rows come.
FindByUser(u) == {d \in Devices : identity[<<u, d>>] # NoKey}

BundleStart(c, u, given) ==
    \E d \in IF given = NoRow THEN FindByUser(u) ELSE {given} :
        /\ Start(c, [Returned EXCEPT !.pc = "identity", !.o = <<u, d>>])
        /\ UNCHANGED <<rows, history>>

BundleIdentity(c) ==
    LET key == FindByUserAndDevice(call[c].o) IN
    /\ call[c].pc = "identity"
    /\ IF key = NoKey THEN Return(c)
       ELSE /\ call' = [call EXCEPT ![c].pc = "signed", ![c].key = key, ![c].read = Nth(call[c].o)]
            /\ UNCHANGED served
    /\ UNCHANGED <<rows, history>>

\* FindActive: any active row; without one the request fails.
BundleSigned(c) ==
    LET o == call[c].o IN
    /\ call[c].pc = "signed"
    /\ IF FindActive(o) = {} THEN Return(c)
       ELSE \E r \in FindActive(o) :
                /\ call' = [call EXCEPT ![c].pc = "consume", ![c].id = r.id, ![c].by = r.by,
                                        ![c].checked = r.checked]
                /\ UNCHANGED served
    /\ UNCHANGED <<rows, history>>

\* Mutant: the row is read but not deleted.
ConsumeOne_Kept(o, k) == k \in pool /\ k[1] = o /\ pool' = pool

\* ConsumeOne: one statement deletes a row of the owner and returns it.
ConsumeOne(o, k) == k \in pool /\ k[1] = o /\ pool' = pool \ {k}

\* An empty pool, and a failure of the statement (for instance because the id in
\* its RETURNING clause is ambiguous), are ignored: the bundle has no one-time
\* prekey then.
BundleConsume(c) ==
    LET o == call[c].o IN
    /\ call[c].pc = "consume"
    /\ \/ \E k \in pool :
              /\ ConsumeOne(o, k)
              /\ credit' = [credit EXCEPT ![k] = @ - 1]
              /\ refill' = [refill EXCEPT ![o] = "due"]
       \/ UNCHANGED <<pool, credit, refill>>
    /\ Goto(c, "count")
    /\ UNCHANGED <<device, bound, identity, signed, had, rotation, overlap>>

\* Mutant: the threshold is off by one.
BundleCount_OffByOne(c) ==
    /\ call[c].pc = "count"
    /\ IF CountAvailable(call[c].o) + 1 < Threshold THEN Goto(c, "dispatch") ELSE Return(c)
    /\ UNCHANGED <<rows, history>>

\* CountAvailable decides whether the owner is asked to publish more keys; if
\* it fails nobody is asked.
BundleCount(c) ==
    /\ call[c].pc = "count"
    /\ IF CountAvailable(call[c].o) < Threshold THEN Goto(c, "dispatch") ELSE Return(c)
    /\ UNCHANGED <<rows, history>>

BundleCountFails(c) ==
    /\ call[c].pc = "count"
    /\ Return(c)
    /\ refill' = [refill EXCEPT ![call[c].o] = "failed"]
    /\ UNCHANGED <<rows, had, credit, rotation, overlap>>

\* The error of Dispatch, which enqueues the event (see Delivery), is discarded.
BundleDispatch(c, ok) ==
    /\ call[c].pc = "dispatch"
    /\ Return(c)
    /\ refill' = [refill EXCEPT ![call[c].o] = IF ok THEN "asked" ELSE "failed"]
    /\ UNCHANGED <<rows, had, credit, rotation, overlap>>

-----------------------------------------------------------------------------
\* A client of user u0 has set up device d0: it is registered and bound, with an
\* identity key, a signed prekey and some one-time prekeys.
InitFor(u0, d0, label, key, spk, otps) ==
    LET o0 == <<u0, d0>> IN
    /\ device = [d \in Devices |-> IF d = d0 THEN label ELSE NoRow]
    /\ bound = {o0}
    /\ identity = [o \in Owners |-> IF o = o0 THEN key ELSE NoKey]
    /\ signed = {[o |-> o0, id |-> spk, by |-> key, active |-> TRUE, checked |-> 1]}
    /\ pool = {o0} \X otps
    /\ call = [c \in Calls |-> Returned]
    /\ served = 0
    /\ had = [o \in Owners |-> IF o = o0 THEN <<key>> ELSE <<>>]
    /\ credit = [k \in Owners \X OtpIds |-> IF k \in pool THEN 1 ELSE 0]
    /\ rotation = [o \in Owners |-> IF o = o0 THEN "done" ELSE "none"]
    /\ overlap = {}
    /\ refill = [o \in Owners |-> "none"]

Init ==
    \E u \in Users, d \in Devices, label \in Labels, key \in SignKeys, spk \in SpkIds :
        \E otps \in SUBSET OtpIds : InitFor(u, d, label, key, spk, otps)

DeviceStep(c) ==
    \/ \E d \in Devices, label \in Labels : RegisterDevice(c, d, label) \/ UpdateFind(c, d, label)
    \/ \E u \in Users, d \in Devices : BindFind(c, u, d) \/ DeleteByAccount(c, u, d)
    \/ UpdateDevice(c) \/ BindAccount(c)

UploadStep(c) ==
    \/ \E o \in Owners, k \in SignKeys : UploadIdentityKey(c, o, k)
    \/ \E o \in Owners, id \in SpkIds, by \in SignKeys : VerifySignedPreKey(c, o, id, by)
    \/ DeactivateAll(c)
    \/ \E ok \in BOOLEAN : Add(c, ok)
    \/ \E o \in Owners, ids \in SUBSET OtpIds : UploadOTPPreKeys(c, o, ids)

BundleStep(c) ==
    \/ \E u \in Users, given \in Devices \cup {NoRow} : BundleStart(c, u, given)
    \/ BundleIdentity(c) \/ BundleSigned(c) \/ BundleConsume(c)
    \/ BundleCount(c) \/ BundleCountFails(c)
    \/ \E ok \in BOOLEAN : BundleDispatch(c, ok)

Next == \E c \in Calls : DeviceStep(c) \/ UploadStep(c) \/ BundleStep(c)

Spec == Init /\ [][Next]_vars

-----------------------------------------------------------------------------
\* Properties

TypeOK ==
    /\ device \in [Devices -> Labels \cup {NoRow}]
    /\ bound \subseteq Owners
    /\ identity \in [Owners -> SignKeys \cup {NoKey}]
    /\ signed \subseteq [o : Owners, id : SpkIds, by : SignKeys, active : BOOLEAN, checked : Nat]
    /\ pool \subseteq Owners \X OtpIds
    /\ served \in 0..MaxCalls
    /\ had \in [Owners -> Seq(SignKeys)]
    /\ credit \in [Owners \X OtpIds -> Int]
    /\ rotation \in [Owners -> {"none", "done", "broken"}]
    /\ overlap \subseteq Owners
    /\ refill \in [Owners -> {"none", "due", "asked", "failed"}]

\* A one-time prekey is given away at most once for every time its owner
\* published it, however many bundles are fetched at the same time, keys
\* uploaded and devices deleted in between.
GivenAwayOnce == \A k \in Owners \X OtpIds : credit[k] >= 0

\* A bundle verifies: its signed prekey was signed by the identity key in the
\* same bundle, unless the owner's identity key was replaced (which leaves the
\* signed prekey active), or deleted with its device and published again,
\* between the check of that signed prekey and the read of that identity key.
BundleVerifies ==
    \A c \in Calls :
        call[c].pc \in {"consume", "count", "dispatch"} /\ call[c].checked = call[c].read
            => call[c].by = call[c].key

\* After a completed rotation there is an active signed prekey, except while
\* a later rotation is between its two statements, and there is more than one
\* only if rotations overlapped.
RotationKeepsOneActive ==
    \A o \in Owners :
        /\ rotation[o] = "done" => FindActive(o) # {} \/ At("add", o) # {}
        /\ Cardinality(FindActive(o)) > 1 => o \in overlap

\* Once the fetches that gave keys away have returned, a pool below the
\* threshold has been reported to its owner since the last upload, unless the
\* count or the dispatch failed.
LowPoolIsReported ==
    \A o \in Owners :
        refill[o] = "due" /\ CountAvailable(o) < Threshold
            => At("count", o) \cup At("dispatch", o) # {}
=============================================================================

--------------------------- MODULE Tenancy_proofs ---------------------------
(***************************************************************************)
(* What holds of the hosted board for any number of users, connections,    *)
(* boards, writes and crashes: a deleted tenant has no file and no handle, *)
(* boards are for members, one store serves a tenant, and an export holds  *)
(* what was committed when it was asked for.                               *)
(*                                                                         *)
(* The mutex on the handles carries the first three: whoever is between    *)
(* the registry's answer and the opening of a file holds it, so the tenant *)
(* is still registered when its file is created.                           *)
(***************************************************************************)
EXTENDS Tenancy, FiniteSetTheorems, TLAPS

Boarding == {"checking", "opening", "subscribing"} \cup Listening

Listed == [id : Tenant, slug : Slug \cup {None}]
Connection == [pc : {"off", "idle", "signup", "accept", "invite", "picking"} \cup Boarding,
               key : Key \cup {None}, known : BOOLEAN, tenants : SUBSET Listed,
               tenant : 0..MaxTenants, store : Nat, dirty : BOOLEAN, view : Nat]
Operation == [pc : {"rest", "deleting", "unlinking", "opening", "checkpoint", "copy",
                    "copying"},
              tenant : 0..MaxTenants, store : Nat, asked : Nat, began : Nat]

RegistryOK == /\ users \subseteq Key
              /\ slug \in [Tenant -> Slug \cup {None}]
              /\ role \in [Tenant -> [Key -> {"owner", "member", None}]]
              /\ invites \subseteq [code : Code, tenant : Tenant, live : BOOLEAN]
              /\ ids \in 0..MaxTenants /\ codes \in 0..MaxCodes

FilesOK == /\ file \subseteq Tenant
           /\ wal \in [Tenant -> Nat] /\ main \in [Tenant -> Nat]
           /\ cached \in [Tenant -> Nat]

TypeOK == /\ RegistryOK
          /\ FilesOK
          /\ lock \in Conn \cup {None, Operator}
          /\ conn \in [Conn -> Connection]
          /\ op \in Operation
          /\ erased \subseteq Tenant

(* Ids are handed out in order, and an erased tenant is not registered.     *)
IdsInOrder == /\ \A t \in Registered : t <= ids
              /\ \A t \in erased : t <= ids /\ slug[t] = None

(* Who is between the registry's answer and the opening holds the mutex.    *)
MutexHeld == /\ \A c \in Conn : conn[c].pc \in {"checking", "opening"} => lock = c
             /\ op.pc \in {"deleting", "unlinking", "opening"} => lock = Operator

(* Under the mutex the answer of the registry stays true.                   *)
AnswerStands ==
    /\ \A c \in Conn : conn[c].pc = "opening" => slug[conn[c].tenant] # None
    /\ op.pc \in {"deleting", "opening"} => slug[op.tenant] # None
    /\ op.pc = "unlinking" => slug[op.tenant] = None
    /\ op.pc \in {"deleting", "unlinking"} => cached[op.tenant] = 0
    /\ op.pc # "rest" => op.tenant \in 1..ids

MayEnter(k, t) == t \in 1..ids /\ (slug[t] # None => role[t][k] # None)

(* What was listed, and later picked, was the user's, and is or is gone.    *)
OwnList(c) == /\ conn[c].pc # "off" \/ conn[c].tenants # {} => conn[c].key \in Key
              /\ \A l \in conn[c].tenants : MayEnter(conn[c].key, l.id)
              /\ conn[c].pc \in Boarding => MayEnter(conn[c].key, conn[c].tenant)
ListsAreOwn == \A c \in Conn : OwnList(c)

(* A store in use is the cached one, unless its tenant is being deleted.    *)
BeingDeleted(t) == slug[t] = None \/ (op.pc = "deleting" /\ op.tenant = t)
StoresAreCached ==
    \A c \in Conn : conn[c].store # 0 =>
        /\ conn[c].pc \in Boarding
        /\ \/ cached[conn[c].tenant] = conn[c].store
           \/ cached[conn[c].tenant] = 0 /\ BeingDeleted(conn[c].tenant)

(* What an export will copy is not older than what was asked for.           *)
ExportOnTheWay ==
    /\ op.pc \in {"opening", "checkpoint", "copy"} => wal[op.tenant] >= op.asked
    /\ op.pc = "copy" => main[op.tenant] >= op.asked

IInv == /\ TypeOK /\ IdsInOrder /\ MutexHeld /\ AnswerStands /\ ListsAreOwn
        /\ StoresAreCached /\ ExportOnTheWay
        /\ DeletedStaysDeleted /\ OneStore /\ ExportIsCurrent

-----------------------------------------------------------------------------
(* Types. *)
LEMMA Bounds == MaxTenants \in Nat /\ MaxCodes \in Nat /\ Tenant \subseteq 0..MaxTenants
  BY TenancyAssumption DEF Tenant

LEMMA StoresAreNats == Stores \subseteq Nat
<1>1. Cardinality(Conn) \in Nat
  BY TenancyAssumption, FS_CardinalityType
<1> QED
  BY <1>1 DEF Stores

LEMMA InitHolds == Init => IInv
<1> SUFFICES ASSUME Init PROVE IInv
  OBVIOUS
<1> USE DEF Init, Nobody, Resting
<1>1. TypeOK
  BY Bounds DEF TypeOK, RegistryOK, FilesOK, Connection, Operation
<1>2. IdsInOrder /\ MutexHeld /\ AnswerStands /\ ListsAreOwn
  BY DEF IdsInOrder, Registered, MutexHeld, AnswerStands, ListsAreOwn, OwnList, Boarding, Listening
<1>3. StoresAreCached /\ ExportOnTheWay
  BY DEF StoresAreCached, ExportOnTheWay
<1>4. DeletedStaysDeleted /\ OneStore /\ ExportIsCurrent
  BY DEF DeletedStaysDeleted, OneStore, ExportIsCurrent
<1> QED
  BY <1>1, <1>2, <1>3, <1>4 DEF IInv

(* A handle taken is a store, and its file is there. *)
LEMMA OpenTypes == ASSUME TypeOK, NEW t \in Tenant, NEW s \in Stores, OpenOrCached(t, s)
                   PROVE  cached' \in [Tenant -> Nat] /\ file' \subseteq Tenant
  BY StoresAreNats DEF OpenOrCached, Keep, TypeOK, FilesOK

(* What a connection goes over to is of the type. *)
LEMMA ConnectionFields ==
    ASSUME NEW r \in Connection
    PROVE  /\ r.key \in Key \cup {None} /\ r.tenants \in SUBSET Listed
           /\ r.tenant \in 0..MaxTenants /\ r.store \in Nat /\ r.view \in Nat
  BY DEF Connection

LEMMA Goes ==
    ASSUME NEW r \in Connection, NEW pc \in {"idle", "signup", "accept"} \cup Boarding
    PROVE  [r EXCEPT !.pc = pc] \in Connection
  BY DEF Connection

LEMMA GoesKnown ==
    ASSUME NEW r \in Connection, NEW next \in {"signup", "accept"}
    PROVE  [r EXCEPT !.pc = next, !.known = TRUE] \in Connection
  BY DEF Connection

LEMMA GoesInviting ==
    ASSUME NEW r \in Connection, NEW t \in 0..MaxTenants, NEW pc \in {"idle", "invite"}
    PROVE  [r EXCEPT !.pc = pc, !.tenant = t] \in Connection
  BY DEF Connection

LEMMA GoesPicking ==
    ASSUME NEW r \in Connection, NEW listed \in SUBSET Listed
    PROVE  [r EXCEPT !.pc = "picking", !.tenants = listed] \in Connection
  BY DEF Connection

LEMMA GoesChecking ==
    ASSUME NEW r \in Connection, NEW t \in 0..MaxTenants
    PROVE  [r EXCEPT !.pc = "checking", !.tenant = t, !.tenants = {}] \in Connection
  BY DEF Connection, Boarding

LEMMA GoesSubscribing ==
    ASSUME NEW r \in Connection, NEW s \in Nat
    PROVE  [r EXCEPT !.pc = "subscribing", !.store = s] \in Connection
  BY DEF Connection, Boarding

LEMMA GoesDrawing ==
    ASSUME NEW r \in Connection, NEW n \in Nat
    PROVE  [r EXCEPT !.pc = "drawing", !.view = n] \in Connection
  BY DEF Connection, Boarding, Listening

LEMMA GoesDirty ==
    ASSUME NEW r \in Connection
    PROVE  /\ [r EXCEPT !.dirty = TRUE] \in Connection
           /\ [r EXCEPT !.pc = "reloading", !.dirty = TRUE] \in Connection
           /\ [r EXCEPT !.pc = "reloading", !.dirty = FALSE] \in Connection
  BY DEF Connection, Boarding, Listening

LEMMA NobodyTypes == Nobody \in Connection
  BY Bounds DEF Nobody, Connection

LEMMA ConnectTypes ==
    ASSUME NEW k \in Key, NEW b \in BOOLEAN
    PROVE  [Nobody EXCEPT !.pc = "idle", !.key = k, !.known = b] \in Connection
<1>1. \A r \in Connection : [r EXCEPT !.pc = "idle", !.key = k, !.known = b] \in Connection
  BY DEF Connection
<1> QED
  BY <1>1, NobodyTypes

LEMMA SetTypes ==
    ASSUME conn \in [Conn -> Connection], NEW c \in Conn, NEW r \in Connection, Set(c, r)
    PROVE  conn' \in [Conn -> Connection]
  BY DEF Set

LEMMA ConnTypes == IInv /\ [Next]_vars => conn' \in [Conn -> Connection]
<1> SUFFICES ASSUME IInv, [Next]_vars PROVE conn' \in [Conn -> Connection]
  OBVIOUS
<1>0. /\ conn \in [Conn -> Connection]
      /\ slug \in [Tenant -> Slug \cup {None}]
      /\ wal \in [Tenant -> Nat]
  BY DEF IInv, TypeOK, RegistryOK, FilesOK
<1>t. \A c \in Conn : conn[c].pc \in Boarding => conn[c].tenant \in Tenant
  BY Bounds DEF IInv, TypeOK, RegistryOK, ListsAreOwn, OwnList, MayEnter, Tenant
<1>1. ASSUME NEW c \in Conn, Command(c) PROVE conn' \in [Conn -> Connection]
  <2> DEFINE r == conn[c]
  <2>0. r \in Connection
    BY <1>0
  <2>1. ASSUME NEW next \in {"signup", "accept"}, Enroll(c, next) PROVE conn' \in [Conn -> Connection]
    BY <1>0, <2>0, <2>1, GoesKnown, SetTypes DEF Enroll
  <2>2. CASE (\E s \in Slug : Signup(c, s)) \/ Accept(c)
    BY <1>0, <2>0, <2>2, Goes, SetTypes DEF Signup, Accept, Goto
  <2>3. ASSUME NEW t \in Tenant, InviteResolve(c, t) PROVE conn' \in [Conn -> Connection]
    BY <1>0, <2>0, <2>3, Bounds, GoesInviting, SetTypes DEF InviteResolve
  <2>4. CASE InviteCreate(c)
    <3>1. 0 \in 0..MaxTenants
      BY Bounds
    <3>2. [r EXCEPT !.pc = "idle", !.tenant = 0] \in Connection
      BY <2>0, <3>1, GoesInviting
    <3> QED
      BY <1>0, <2>4, <3>2, SetTypes DEF InviteCreate
  <2> QED
    BY <1>1, <2>1, <2>2, <2>3, <2>4 DEF Command
<1>2. ASSUME NEW c \in Conn, Board(c) \/ Write(c) PROVE conn' \in [Conn -> Connection]
  <2> DEFINE r == conn[c]
  <2>0. r \in Connection
    BY <1>0
  <2>1. CASE Subscribe(c) \/ Draw(c) \/ Write(c)
    <3>1. \A pc \in Boarding : [r EXCEPT !.pc = pc] \in Connection
      BY <2>0, Goes
    <3>2. \E pc \in Boarding : conn' = [conn EXCEPT ![c] = [r EXCEPT !.pc = pc]]
      BY <2>1 DEF Subscribe, Draw, Write, Goto, Set, Boarding, Listening
    <3> QED
      BY <1>0, <3>1, <3>2
  <2>2. CASE Poll(c)
    BY <1>0, <2>0, <2>2, GoesDirty, SetTypes DEF Poll
  <2>3. CASE Reload(c)
    <3>1. wal[r.tenant] \in Nat
      BY <1>0, <1>t, <2>3 DEF Reload, At, Boarding, Listening
    <3> QED
      BY <1>0, <2>0, <2>3, <3>1, GoesDrawing, SetTypes DEF Reload
  <2>4. CASE Publish(c)
    <3>1. \A d \in Conn : /\ [conn[d] EXCEPT !.dirty = TRUE] \in Connection
                          /\ [conn[d] EXCEPT !.pc = "reloading", !.dirty = TRUE] \in Connection
      BY <1>0, GoesDirty
    <3> QED
      BY <1>0, <2>4, <3>1 DEF Publish
  <2> QED
    BY <1>2, <2>1, <2>2, <2>3, <2>4 DEF Board
<1>3. ASSUME NEW c \in Conn, NEW k \in Keys[c], Connect(c, k) PROVE conn' \in [Conn -> Connection]
  <2>1. k \in Key /\ Known(k) \in BOOLEAN
    BY TenancyAssumption DEF Known
  <2> QED
    BY <1>0, <1>3, <2>1, ConnectTypes, SetTypes DEF Connect
<1>4. ASSUME NEW c \in Conn, Disconnect(c) PROVE conn' \in [Conn -> Connection]
  BY <1>0, <1>4, NobodyTypes, SetTypes DEF Disconnect
<1>5. ASSUME NEW c \in Conn, Shell(c) PROVE conn' \in [Conn -> Connection]
  <2>1. Listing(conn[c].key) \in SUBSET Listed
    BY <1>0 DEF Listing, TenantsOf, Registered, Listed
  <2> QED
    BY <1>0, <1>5, <2>1, GoesPicking, SetTypes DEF Shell
<1>6. ASSUME NEW c \in Conn, Pick(c) PROVE conn' \in [Conn -> Connection]
  <2>1. PICK listed \in conn[c].tenants :
            Set(c, [conn[c] EXCEPT !.pc = "checking", !.tenant = listed.id, !.tenants = {}])
    BY <1>6 DEF Pick, Chosen
  <2>2. listed.id \in 0..MaxTenants
    <3>1. listed \in Listed
      BY <1>0, <2>1, ConnectionFields
    <3> QED
      BY <3>1, Bounds DEF Listed
  <2> QED
    BY <1>0, <2>1, <2>2, GoesChecking, SetTypes
<1>7. ASSUME NEW c \in Conn, BoardCheck(c) PROVE conn' \in [Conn -> Connection]
  <2>1. [conn[c] EXCEPT !.pc = "opening"] \in Connection /\ Nobody \in Connection
    BY <1>0, Goes, NobodyTypes DEF Boarding
  <2> QED
    BY <1>0, <1>7, <2>1 DEF BoardCheck, Goto, Set
<1>8. ASSUME NEW c \in Conn, BoardOpen(c) PROVE conn' \in [Conn -> Connection]
  BY <1>0, <1>8, StoresAreNats, GoesSubscribing, SetTypes DEF BoardOpen
<1>9. CASE Operate \/ (\E i \in invites : Expire(i)) \/ (\E t \in Tenant : AutoCheckpoint(t)) \/ UNCHANGED vars
  BY <1>0, <1>9 DEF Operate, DeleteStart, ExportStart, DeleteRows, DeleteFiles, DeleteFails,
                    ExportOpen, ExportCheckpoint, CopyBegin, CopyEnd, Expire, AutoCheckpoint, vars
<1>10. CASE Crash
  BY <1>10, NobodyTypes DEF Crash
<1> QED
  BY <1>1, <1>2, <1>3, <1>4, <1>5, <1>6, <1>7, <1>8, <1>9, <1>10 DEF Next, Session

LEMMA OpTypes == IInv /\ [Next]_vars => op' \in Operation
<1> SUFFICES ASSUME IInv, [Next]_vars PROVE op' \in Operation
  OBVIOUS
<1>0. op \in Operation /\ wal \in [Tenant -> Nat] /\ main \in [Tenant -> Nat]
  BY DEF IInv, TypeOK, FilesOK
<1>t. op.pc # "rest" => op.tenant \in Tenant
  BY Bounds DEF IInv, TypeOK, RegistryOK, AnswerStands, Tenant
<1>r. Resting \in Operation
  BY Bounds DEF Resting, Operation
<1>1. CASE Operate
  <2> USE <1>0, <1>t, <1>r DEF Operation, OpGoto
  <2>1. ASSUME NEW t \in Tenant, DeleteStart(t) PROVE op' \in Operation
    BY <2>1, Bounds DEF DeleteStart
  <2>2. ASSUME NEW t \in Tenant, ExportStart(t) PROVE op' \in Operation
    BY <2>2, Bounds DEF ExportStart
  <2>3. CASE DeleteRows \/ DeleteFiles \/ DeleteFails \/ CopyEnd
    BY <2>3 DEF DeleteRows, DeleteFiles, DeleteFails, CopyEnd
  <2>4. CASE ExportOpen
    BY <2>4, StoresAreNats DEF ExportOpen
  <2>5. CASE ExportCheckpoint
    BY <2>5 DEF ExportCheckpoint
  <2>6. CASE CopyBegin
    BY <2>6 DEF CopyBegin
  <2> QED
    BY <1>1, <2>1, <2>2, <2>3, <2>4, <2>5, <2>6 DEF Operate
<1>2. CASE Crash \/ UNCHANGED vars
  BY <1>0, <1>2, <1>r DEF Crash, vars
<1>3. ASSUME NEW c \in Conn, Session(c) PROVE op' = op
  BY <1>3 DEF Session, Command, Board, Connect, Disconnect, Enroll, Signup, Accept,
              InviteResolve, InviteCreate, Shell, Pick, BoardCheck, BoardOpen, Subscribe,
              Reload, Draw, Poll, Write, Publish
<1>4. CASE (\E i \in invites : Expire(i)) \/ (\E t \in Tenant : AutoCheckpoint(t))
  BY <1>0, <1>4 DEF Expire, AutoCheckpoint
<1> QED
  BY <1>0, <1>1, <1>2, <1>3, <1>4 DEF Next

LEMMA TypeStep == IInv /\ [Next]_vars => TypeOK'
<1> SUFFICES ASSUME IInv, [Next]_vars PROVE TypeOK'
  OBVIOUS
<1> DEFINE Rest == /\ RegistryOK /\ FilesOK
                   /\ lock \in Conn \cup {None, Operator} /\ erased \subseteq Tenant
<1>0. Rest /\ conn \in [Conn -> Connection] /\ op \in Operation
  BY DEF IInv, TypeOK
<1>k. /\ \A c \in Conn : conn[c].pc # "off" => conn[c].key \in Key
      /\ \A c \in Conn : conn[c].pc \in Boarding => conn[c].tenant \in Tenant
      /\ \A c \in Conn : conn[c].tenant \in 0..MaxTenants
      /\ op.pc # "rest" => op.tenant \in Tenant
  BY <1>0, Bounds, ConnectionFields
     DEF IInv, ListsAreOwn, OwnList, AnswerStands, MayEnter, Tenant, RegistryOK
<1>s. Rest'
  <2> USE <1>0, <1>k DEF RegistryOK, FilesOK, registry, files, handles, At, Boarding, Listening
  <2>1. ASSUME NEW c \in Conn, Command(c) PROVE Rest'
    <3>1. CASE Enroll(c, "signup") \/ Enroll(c, "accept")
      BY <3>1 DEF Enroll
    <3>2. ASSUME NEW s \in Slug, Signup(c, s) PROVE Rest'
      <4>1. conn[c].key \in Key
        BY <3>2 DEF Signup
      <4>2. CASE UNCHANGED <<ids, slug, role>>
        BY <3>2, <4>2 DEF Signup
      <4>3. CASE ids < MaxTenants /\ ids' = ids + 1
        <5>1. ids' \in 1..MaxTenants /\ ids' \in 0..MaxTenants
          BY <4>3, Bounds DEF Tenant
        <5>2. /\ slug' \in [Tenant -> Slug \cup {None}]
              /\ role' \in [Tenant -> [Key -> {"owner", "member", None}]]
          BY <3>2, <4>1, <4>3, <5>1 DEF Signup, Tenant
        <5> QED
          BY <3>2, <5>1, <5>2 DEF Signup
      <4> QED
        BY <3>2, <4>2, <4>3 DEF Signup
    <3>3. CASE Accept(c)
      <4>1. conn[c].key \in Key
        BY <3>3 DEF Accept
      <4>2. CASE UNCHANGED <<invites, role>>
        BY <3>3, <4>2 DEF Accept
      <4>3. ASSUME NEW i \in invites, invites' = Spent(i), role' = Joined(i.tenant, conn[c].key)
            PROVE  Rest'
        <5>1. i.tenant \in Tenant
          OBVIOUS
        <5>2. role' \in [Tenant -> [Key -> {"owner", "member", None}]]
          BY <4>1, <4>3, <5>1 DEF Joined
        <5> QED
          BY <3>3, <4>3, <5>2 DEF Accept, Spent
      <4> QED
        BY <3>3, <4>2, <4>3 DEF Accept
    <3>4. ASSUME NEW t \in Tenant, InviteResolve(c, t) PROVE Rest'
      BY <3>4 DEF InviteResolve
    <3>5. CASE InviteCreate(c)
      <4>1. CASE UNCHANGED <<codes, invites>>
        BY <3>5, <4>1 DEF InviteCreate
      <4>2. CASE /\ conn[c].tenant \in Registered /\ codes < MaxCodes /\ codes' = codes + 1
                 /\ invites' = {i \in invites : i.live}
                               \cup {[code |-> codes', tenant |-> conn[c].tenant, live |-> TRUE]}
        <5>1. conn[c].tenant \in Tenant /\ codes' \in Code /\ codes' \in 0..MaxCodes
          BY <4>2, Bounds DEF Registered, Code
        <5>2. [code |-> codes', tenant |-> conn[c].tenant, live |-> TRUE]
                 \in [code : Code, tenant : Tenant, live : BOOLEAN]
          BY <5>1
        <5>3. invites' \subseteq [code : Code, tenant : Tenant, live : BOOLEAN]
          BY <4>2, <5>2
        <5>4. UNCHANGED <<users, slug, role, ids, file, wal, main, cached, lock, erased>>
          BY <3>5 DEF InviteCreate
        <5> QED
          BY <5>1, <5>3, <5>4
      <4> QED
        BY <3>5, <4>1, <4>2 DEF InviteCreate
    <3> QED
      BY <2>1, <3>1, <3>2, <3>3, <3>4, <3>5 DEF Command
  <2>2. ASSUME NEW c \in Conn, Board(c) \/ Shell(c) \/ Disconnect(c)
                               \/ (\E k \in Keys[c] : Connect(c, k))
        PROVE  Rest'
    BY <2>2 DEF Board, Subscribe, Reload, Draw, Poll, Publish, Shell, Disconnect, Connect
  <2>3. ASSUME NEW c \in Conn, Write(c) PROVE Rest'
    BY <2>3 DEF Write
  <2>4. ASSUME NEW c \in Conn, Pick(c) \/ BoardCheck(c) PROVE Rest'
    BY <2>4 DEF Pick, BoardCheck, HandleLock, Unlock
  <2>5. ASSUME NEW c \in Conn, BoardOpen(c) PROVE Rest'
    <3>1. PICK s \in Stores : OpenOrCached(conn[c].tenant, s)
      BY <2>5 DEF BoardOpen
    <3>2. cached' \in [Tenant -> Nat] /\ file' \subseteq Tenant
      BY <2>5, <3>1, OpenTypes DEF BoardOpen, IInv
    <3> QED
      BY <2>5, <3>2 DEF BoardOpen, Unlock
  <2>6. CASE ExportOpen
    <3>1. PICK s \in Stores : OpenOrCached(op.tenant, s)
      BY <2>6 DEF ExportOpen
    <3>2. cached' \in [Tenant -> Nat] /\ file' \subseteq Tenant
      BY <2>6, <3>1, OpenTypes DEF ExportOpen, IInv
    <3> QED
      BY <2>6, <3>2 DEF ExportOpen, Unlock
  <2>7. ASSUME NEW t \in Tenant, DeleteStart(t) \/ ExportStart(t) PROVE Rest'
    BY <2>7 DEF DeleteStart, ExportStart, HandleLock
  <2>8. CASE DeleteRows
    BY <2>8 DEF DeleteRows, Cascaded
  <2>9. CASE DeleteFiles \/ DeleteFails
    BY <2>9 DEF DeleteFiles, DeleteFails, Unlock
  <2>10. CASE ExportCheckpoint \/ CopyBegin \/ CopyEnd
    BY <2>10 DEF ExportCheckpoint, CopyBegin, CopyEnd, Checkpointed
  <2>11. ASSUME NEW t \in Tenant, AutoCheckpoint(t) PROVE Rest'
    BY <2>11 DEF AutoCheckpoint
  <2>12. ASSUME NEW i \in invites, Expire(i) PROVE Rest'
    BY <2>12 DEF Expire
  <2>13. CASE Crash
    BY <2>13 DEF Crash
  <2>14. CASE UNCHANGED vars
    BY <2>14 DEF vars
  <2> QED
    BY <2>1, <2>2, <2>3, <2>4, <2>5, <2>6, <2>7, <2>8, <2>9, <2>10, <2>11, <2>12, <2>13, <2>14
       DEF Next, Session, Operate
<1> QED
  BY <1>s, ConnTypes, OpTypes DEF TypeOK
-----------------------------------------------------------------------------
(* The commands: the registry only grows, and nobody opens a store.         *)
Safe == /\ IdsInOrder /\ MutexHeld /\ AnswerStands /\ ListsAreOwn
        /\ StoresAreCached /\ ExportOnTheWay
        /\ DeletedStaysDeleted /\ OneStore /\ ExportIsCurrent

Grows == /\ ids <= ids' /\ \A t \in Tenant : slug'[t] # None => t <= ids'
         /\ \A t \in 1..ids : slug'[t] = slug[t]
         /\ \A t \in Tenant, k \in Key : slug'[t] # None /\ role[t][k] # None => role'[t][k] # None

LEMMA EntrySurvives ==
    ASSUME TypeOK, Grows, ids' \in Nat, NEW k \in Key, NEW t \in Tenant, MayEnter(k, t)
    PROVE  MayEnter(k, t)'
  BY Bounds DEF MayEnter, Grows, Tenant, TypeOK, RegistryOK

LEMMA TalkKeeps ==
    ASSUME IInv, TypeOK', Grows, UNCHANGED <<files, handles, op, erased>>,
           NEW c \in Conn, NEW r \in Connection, Set(c, r),
           r.pc \notin Boarding, r.store = 0,
           r.pc # "off" \/ r.tenants # {} => r.key \in Key,
           \A l \in r.tenants : MayEnter(r.key, l.id)'
    PROVE  Safe'
<1> USE DEF files, handles, Boarding, Listening
<1>1. /\ conn' = [conn EXCEPT ![c] = r] /\ conn \in [Conn -> Connection]
      /\ slug \in [Tenant -> Slug \cup {None}] /\ ids \in Nat /\ ids' \in Nat
  BY Bounds DEF IInv, TypeOK, RegistryOK, Set
<1>2. IdsInOrder'
  BY <1>1, Bounds DEF IInv, TypeOK, RegistryOK, IdsInOrder, Registered, Grows, Tenant
<1>3. MutexHeld' /\ ExportOnTheWay' /\ ExportIsCurrent' /\ DeletedStaysDeleted'
  BY <1>1 DEF IInv, MutexHeld, ExportOnTheWay, ExportIsCurrent, DeletedStaysDeleted
<1>4. AnswerStands'
  <2>1. \A d \in Conn : conn[d].pc = "opening" => conn[d].tenant \in 1..ids
    BY DEF IInv, ListsAreOwn, OwnList, MayEnter
  <2> QED
    BY <1>1, <2>1 DEF IInv, AnswerStands, Grows
<1>5. ListsAreOwn'
  <2> SUFFICES ASSUME NEW d \in Conn PROVE OwnList(d)'
    BY DEF ListsAreOwn
  <2>1. CASE d = c
    <3>1. conn'[d] = r
      BY <1>1, <2>1
    <3> QED
      BY <3>1 DEF OwnList, MayEnter
  <2>2. CASE d # c
    <3>1. conn'[d] = conn[d] /\ conn[d] \in Connection
      BY <1>1, <2>2
    <3>2. \A l \in conn[d].tenants : l.id \in Tenant
      BY <3>1, ConnectionFields DEF Listed
    <3>3. \A k \in Key, t \in Tenant : MayEnter(k, t) => MayEnter(k, t)'
      BY <1>1, EntrySurvives DEF IInv
    <3>4. OwnList(d)
      BY DEF IInv, ListsAreOwn
    <3>5. conn[d].pc \in Boarding => conn[d].tenant \in Tenant
      BY <3>4, Bounds DEF OwnList, MayEnter, Tenant, IInv, TypeOK, RegistryOK
    <3> QED
      BY <3>1, <3>2, <3>3, <3>4, <3>5 DEF OwnList, MayEnter
  <2> QED
    BY <2>1, <2>2
<1>6. StoresAreCached'
  <2> SUFFICES ASSUME NEW d \in Conn, conn'[d].store # 0
               PROVE  /\ conn'[d].pc \in Boarding
                      /\ \/ cached'[conn'[d].tenant] = conn'[d].store
                         \/ cached'[conn'[d].tenant] = 0 /\ BeingDeleted(conn[d].tenant)'
    BY DEF StoresAreCached
  <2>1. conn'[d] = conn[d] /\ conn[d].store # 0
    BY <1>1
  <2>2. conn[d].pc \in Boarding /\ conn[d].tenant \in 1..ids
    BY <2>1 DEF IInv, StoresAreCached, ListsAreOwn, OwnList, MayEnter
  <2> QED
    BY <2>1, <2>2 DEF IInv, StoresAreCached, BeingDeleted, Grows
<1>7. OneStore'
  BY <1>1 DEF IInv, OneStore
<1> QED
  BY <1>2, <1>3, <1>4, <1>5, <1>6, <1>7 DEF Safe
LEMMA CommandKeeps ==
    ASSUME IInv, TypeOK', NEW c \in Conn, Command(c)
    PROVE  Safe'
<1>0. /\ conn \in [Conn -> Connection] /\ conn[c] \in Connection /\ conn'[c] \in Connection
      /\ slug \in [Tenant -> Slug \cup {None}] /\ ids \in 0..MaxTenants
      /\ ids \in Nat /\ ids' \in Nat
      /\ role \in [Tenant -> [Key -> {"owner", "member", None}]]
      /\ OwnList(c) /\ IdsInOrder /\ StoresAreCached
  BY Bounds DEF IInv, TypeOK, RegistryOK, ListsAreOwn
<1>s. conn[c].pc \notin Boarding => conn[c].store = 0
  BY <1>0 DEF StoresAreCached
<1> USE DEF At, Goto, Set, Boarding, Listening
<1>1. PICK r \in Connection :
        /\ UNCHANGED <<files, handles, op, erased>>
        /\ conn' = [conn EXCEPT ![c] = r]
        /\ r.pc \in {"idle", "signup", "accept", "invite"} /\ r.store = 0
        /\ r.key = conn[c].key /\ r.key \in Key /\ r.tenants = conn[c].tenants
  <2>0. ASSUME NEW q \in Connection, q.key = conn[c].key, q.tenants = conn[c].tenants,
               q.store = conn[c].store, conn' = [conn EXCEPT ![c] = q],
               UNCHANGED <<files, handles, op, erased>>,
               q.pc \in {"idle", "signup", "accept", "invite"},
               conn[c].pc \in {"idle", "signup", "accept", "invite"}
        PROVE  \E r \in Connection :
                  /\ UNCHANGED <<files, handles, op, erased>>
                  /\ conn' = [conn EXCEPT ![c] = r]
                  /\ r.pc \in {"idle", "signup", "accept", "invite"} /\ r.store = 0
                  /\ r.key = conn[c].key /\ r.key \in Key /\ r.tenants = conn[c].tenants
    BY <1>0, <1>s, <2>0 DEF OwnList
  <2> DEFINE old == conn[c]
  <2>1. ASSUME NEW next \in {"signup", "accept"}, Enroll(c, next)
        PROVE  \E q \in Connection :
                  q = [old EXCEPT !.pc = next, !.known = TRUE] /\ conn' = [conn EXCEPT ![c] = q]
    BY <1>0, <2>1, GoesKnown DEF Enroll
  <2>2. ASSUME (\E s \in Slug : Signup(c, s)) \/ Accept(c)
        PROVE  \E q \in Connection : q = [old EXCEPT !.pc = "idle"] /\ conn' = [conn EXCEPT ![c] = q]
    BY <1>0, <2>2, Goes DEF Signup, Accept
  <2>3. ASSUME NEW t \in 0..MaxTenants, NEW pc \in {"idle", "invite"}
        PROVE  LET q == [old EXCEPT !.pc = pc, !.tenant = t]
               IN  /\ q \in Connection /\ q.key = old.key /\ q.tenants = old.tenants
                   /\ q.store = old.store /\ q.pc = pc
    BY <1>0, GoesInviting DEF Connection
  <2>4. /\ \A t \in Tenant : InviteResolve(c, t) =>
              conn' = [conn EXCEPT ![c] = [old EXCEPT !.pc = "invite", !.tenant = t]]
        /\ InviteCreate(c) =>
              conn' = [conn EXCEPT ![c] = [old EXCEPT !.pc = "idle", !.tenant = 0]]
        /\ 0 \in 0..MaxTenants /\ Tenant \subseteq 0..MaxTenants
    <3>1. ASSUME NEW t \in Tenant, InviteResolve(c, t)
          PROVE  conn' = [conn EXCEPT ![c] = [old EXCEPT !.pc = "invite", !.tenant = t]]
      BY <3>1 DEF InviteResolve
    <3>2. ASSUME InviteCreate(c)
          PROVE  conn' = [conn EXCEPT ![c] = [old EXCEPT !.pc = "idle", !.tenant = 0]]
      BY <3>2 DEF InviteCreate
    <3>3. 0 \in 0..MaxTenants /\ Tenant \subseteq 0..MaxTenants
      BY Bounds
    <3> QED
      BY <3>1, <3>2, <3>3
  <2>5. \A next \in {"idle", "signup", "accept"} :
           /\ [old EXCEPT !.pc = next, !.known = TRUE].key = old.key
           /\ [old EXCEPT !.pc = next, !.known = TRUE].tenants = old.tenants
           /\ [old EXCEPT !.pc = next, !.known = TRUE].store = old.store
           /\ [old EXCEPT !.pc = next, !.known = TRUE].pc = next
    BY <1>0 DEF Connection
  <2>6. /\ [old EXCEPT !.pc = "idle"].key = old.key
        /\ [old EXCEPT !.pc = "idle"].tenants = old.tenants
        /\ [old EXCEPT !.pc = "idle"].store = old.store
        /\ [old EXCEPT !.pc = "idle"].pc = "idle"
    BY <1>0 DEF Connection
  <2>7. UNCHANGED <<files, handles, op, erased>> /\ old.pc \in {"idle", "signup", "accept", "invite"}
    BY DEF Command, Enroll, Signup, Accept, InviteResolve, InviteCreate, registry, files, handles
  <2>9. CASE Enroll(c, "signup") \/ Enroll(c, "accept")
    BY <2>0, <2>1, <2>5, <2>7, <2>9
  <2>10. CASE (\E s \in Slug : Signup(c, s)) \/ Accept(c)
    BY <2>0, <2>2, <2>6, <2>7, <2>10
  <2>11. CASE \E t \in Tenant : InviteResolve(c, t)
    <3>1. PICK t \in Tenant : InviteResolve(c, t)
      BY <2>11
    <3> DEFINE q == [old EXCEPT !.pc = "invite", !.tenant = t]
    <3>2. /\ q \in Connection /\ q.key = old.key /\ q.tenants = old.tenants
          /\ q.store = old.store /\ q.pc = "invite" /\ conn' = [conn EXCEPT ![c] = q]
      BY <2>3, <2>4, <3>1
    <3> HIDE DEF q
    <3> QED
      BY <2>0, <2>7, <3>2
  <2>12. CASE InviteCreate(c)
    <3> DEFINE q == [old EXCEPT !.pc = "idle", !.tenant = 0]
    <3>2. /\ q \in Connection /\ q.key = old.key /\ q.tenants = old.tenants
          /\ q.store = old.store /\ q.pc = "idle" /\ conn' = [conn EXCEPT ![c] = q]
      BY <2>3, <2>4, <2>12
    <3> HIDE DEF q
    <3> QED
      BY <2>0, <2>7, <3>2
  <2> QED
    BY <2>9, <2>10, <2>11, <2>12 DEF Command
<1>2. Grows
  <2>1. CASE UNCHANGED <<ids, slug, role>>
    BY <1>0, <2>1, Bounds DEF Grows, IdsInOrder, Registered, Tenant
  <2>2. ASSUME NEW s \in Slug, Signup(c, s), ids < MaxTenants, ids' = ids + 1,
               slug' = [slug EXCEPT ![ids'] = s],
               role' = [role EXCEPT ![ids'][conn[c].key] = "owner"]
        PROVE  Grows
    <3>1. ids' \in Tenant /\ ids' \notin 1..ids /\ ids <= ids'
      BY <1>0, <2>2, Bounds DEF Tenant
    <3>2. \A t \in 1..ids : t \in Tenant /\ slug'[t] = slug[t]
      BY <1>0, <2>2, <3>1, Bounds DEF Tenant
    <3>3. \A t \in Tenant : slug'[t] # None => t <= ids'
      BY <1>0, <2>2, <3>1 DEF IdsInOrder, Registered, Tenant
    <3>4. \A t \in Tenant, k \in Key : role[t][k] # None => role'[t][k] # None
      BY <1>0, <2>2, <3>1, TenancyAssumption
    <3> QED
      BY <3>1, <3>2, <3>3, <3>4 DEF Grows
  <2>3. ASSUME NEW i \in invites, role' = Joined(i.tenant, conn[c].key), UNCHANGED <<ids, slug>>
        PROVE  Grows
    <3>1. \A t \in Tenant, k \in Key : role[t][k] # None => role'[t][k] # None
      BY <1>0, <2>3, TenancyAssumption DEF Joined
    <3> QED
      BY <1>0, <2>3, <3>1, Bounds DEF Grows, IdsInOrder, Registered, Tenant
  <2>4. CASE \/ Enroll(c, "signup") \/ Enroll(c, "accept")
             \/ (\E t \in Tenant : InviteResolve(c, t)) \/ InviteCreate(c)
    BY <2>1, <2>4 DEF Enroll, InviteResolve, InviteCreate, registry
  <2>5. CASE (\E s \in Slug : Signup(c, s)) \/ Accept(c)
    BY <2>1, <2>2, <2>3, <2>5 DEF Signup, Accept
  <2> QED
    BY <2>4, <2>5 DEF Command
<1>3. \A l \in r.tenants : MayEnter(r.key, l.id)'
  <2>1. \A k \in Key, t \in Tenant : MayEnter(k, t) => MayEnter(k, t)'
    BY <1>0, <1>2, EntrySurvives DEF IInv
  <2>2. \A l \in conn[c].tenants : l.id \in Tenant /\ MayEnter(conn[c].key, l.id)
    BY <1>0, ConnectionFields DEF OwnList, Listed
  <2> QED
    BY <1>1, <2>1, <2>2 DEF MayEnter
<1> QED
  BY <1>1, <1>2, <1>3, TalkKeeps

(* Who connects, goes or lists the boards.                                  *)
LEMMA IdleKeeps ==
    ASSUME IInv, TypeOK', NEW c \in Conn,
           (\E k \in Keys[c] : Connect(c, k)) \/ Disconnect(c) \/ Shell(c)
    PROVE  Safe'
<1> USE DEF Set, Boarding, Listening, Nobody
<1>0. /\ conn \in [Conn -> Connection] /\ conn[c] \in Connection /\ conn'[c] \in Connection
      /\ slug \in [Tenant -> Slug \cup {None}] /\ ids \in Nat
      /\ OwnList(c) /\ IdsInOrder /\ StoresAreCached
  BY Bounds DEF IInv, TypeOK, RegistryOK, ListsAreOwn
<1>1. /\ UNCHANGED <<registry, files, handles, op, erased>>
      /\ \E r \in Connection : conn' = [conn EXCEPT ![c] = r]
  BY <1>0 DEF Connect, Disconnect, Shell
<1>2. PICK r \in Connection : conn' = [conn EXCEPT ![c] = r] /\ conn'[c] = r
  BY <1>0, <1>1
<1>3. Grows
  BY <1>0, <1>1, Bounds DEF Grows, IdsInOrder, Registered, registry, Tenant
<1>4. /\ r.pc \notin Boarding /\ r.store = 0
      /\ r.pc # "off" \/ r.tenants # {} => r.key \in Key
      /\ \A l \in r.tenants : MayEnter(r.key, l.id)
  <2>1. ASSUME NEW k \in Keys[c], Connect(c, k)
        PROVE r.pc = "idle" /\ r.store = 0 /\ r.key \in Key /\ r.tenants = {}
    <3>1. r = [Nobody EXCEPT !.pc = "idle", !.key = k, !.known = Known(k)] /\ k \in Key
      BY <1>0, <1>2, <2>1, TenancyAssumption DEF Connect
    <3> QED
      BY <3>1
  <2>2. CASE Disconnect(c)
    BY <1>0, <1>2, <2>2 DEF Disconnect
  <2>3. CASE Shell(c)
    <3>1. /\ r.pc = "picking" /\ r.key = conn[c].key /\ r.tenants = Listing(conn[c].key)
          /\ r.store = conn[c].store /\ conn[c].pc = "idle"
      <4>1. /\ r = [conn[c] EXCEPT !.pc = "picking", !.tenants = Listing(conn[c].key)]
            /\ conn[c].pc = "idle"
        BY <1>0, <1>2, <2>3 DEF Shell, At
      <4> QED
        BY <1>0, <4>1 DEF Connection
    <3>2. r.key \in Key /\ r.store = 0
      BY <1>0, <3>1 DEF OwnList, StoresAreCached
    <3>3. \A l \in Listing(conn[c].key) : MayEnter(conn[c].key, l.id)
      BY <1>0, Bounds DEF Listing, TenantsOf, Registered, MayEnter, IdsInOrder, Tenant
    <3> QED
      BY <3>1, <3>2, <3>3
  <2> QED
    BY <2>1, <2>2, <2>3
<1>5. \A l \in r.tenants : MayEnter(r.key, l.id)'
  BY <1>1, <1>4 DEF MayEnter, registry
<1> QED
  BY <1>1, <1>2, <1>3, <1>4, <1>5, TalkKeeps
-----------------------------------------------------------------------------
(* A board that loads, draws, writes and publishes keeps its tenant.        *)
SameBoard(d) ==
    /\ conn'[d].key = conn[d].key /\ conn'[d].tenants = conn[d].tenants
    /\ conn'[d].tenant = conn[d].tenant /\ conn'[d].store = conn[d].store
    /\ \/ conn'[d].pc = conn[d].pc
       \/ conn[d].pc \in {"subscribing"} \cup Listening /\ conn'[d].pc \in Listening

LEMMA BoardKeeps ==
    ASSUME IInv, TypeOK', NEW c \in Conn, Board(c) \/ Write(c)
    PROVE  Safe'
<1>0. /\ conn \in [Conn -> Connection] /\ conn[c] \in Connection
      /\ wal \in [Tenant -> Nat] /\ op \in Operation
  BY DEF IInv, TypeOK, FilesOK
<1>1. /\ UNCHANGED <<registry, file, main, handles, op, erased>>
      /\ \A t \in Tenant : wal'[t] >= wal[t]
  BY <1>0 DEF Board, Subscribe, Reload, Draw, Poll, Publish, Write, files
<1>2. \A d \in Conn : SameBoard(d)
  <2>1. ASSUME NEW r \in Connection, conn' = [conn EXCEPT ![c] = r],
               r.key = conn[c].key, r.tenants = conn[c].tenants, r.tenant = conn[c].tenant,
               r.store = conn[c].store, r.pc \in Listening,
               conn[c].pc \in {"subscribing"} \cup Listening
        PROVE  \A d \in Conn : SameBoard(d)
    BY <1>0, <2>1 DEF SameBoard
  <2> DEFINE old == conn[c]
  <2>2. ASSUME NEW pc \in Listening
        PROVE  LET q == [old EXCEPT !.pc = pc]
               IN  /\ q \in Connection /\ q.key = old.key /\ q.tenants = old.tenants
                   /\ q.tenant = old.tenant /\ q.store = old.store /\ q.pc = pc
    BY <1>0, Goes DEF Connection, Boarding
  <2>3. CASE Subscribe(c) \/ Draw(c) \/ Write(c)
    <3>1. PICK pc \in Listening : conn' = [conn EXCEPT ![c] = [old EXCEPT !.pc = pc]]
      BY <2>3 DEF Subscribe, Draw, Write, Goto, Set, Listening
    <3>2. old.pc \in {"subscribing"} \cup Listening
      BY <2>3 DEF Subscribe, Draw, Write, At, Listening
    <3> DEFINE q == [old EXCEPT !.pc = pc]
    <3>3. /\ q \in Connection /\ q.key = old.key /\ q.tenants = old.tenants
          /\ q.tenant = old.tenant /\ q.store = old.store /\ q.pc = pc
          /\ conn' = [conn EXCEPT ![c] = q]
      BY <2>2, <3>1
    <3> HIDE DEF q
    <3> QED
      BY <2>1, <3>2, <3>3
  <2>4. CASE Reload(c)
    <3> DEFINE q == [old EXCEPT !.pc = "drawing", !.view = wal[old.tenant]]
    <3>1. old.pc = "reloading" /\ old.tenant \in Tenant
      BY <2>4, Bounds DEF Reload, At, Boarding, Listening, IInv, ListsAreOwn, OwnList, MayEnter,
                          Tenant, TypeOK, RegistryOK
    <3>2. q \in Connection
      BY <1>0, <3>1, GoesDrawing
    <3>3. /\ q.key = old.key /\ q.tenants = old.tenants
          /\ q.tenant = old.tenant /\ q.store = old.store /\ q.pc = "drawing"
      BY <1>0 DEF Connection
    <3>4. conn' = [conn EXCEPT ![c] = q]
      BY <2>4 DEF Reload, Set
    <3> HIDE DEF q
    <3> QED
      BY <2>1, <3>1, <3>2, <3>3, <3>4 DEF Listening
  <2>5. CASE Poll(c)
    <3> DEFINE q == [old EXCEPT !.pc = "reloading", !.dirty = FALSE]
    <3>2. q \in Connection
      BY <1>0, GoesDirty
    <3>3. /\ q.key = old.key /\ q.tenants = old.tenants
          /\ q.tenant = old.tenant /\ q.store = old.store /\ q.pc = "reloading"
      BY <1>0 DEF Connection
    <3>4. conn' = [conn EXCEPT ![c] = q] /\ old.pc = "board"
      BY <2>5 DEF Poll, Set, At
    <3> HIDE DEF q
    <3> QED
      BY <2>1, <3>2, <3>3, <3>4 DEF Listening
  <2>6. CASE Publish(c)
    <3> SUFFICES ASSUME NEW d \in Conn PROVE SameBoard(d)
      OBVIOUS
    <3>1. conn[d] \in Connection
      BY <1>0
    <3>2. CASE d = c
      <4>1. conn'[d] = [conn[d] EXCEPT !.pc = "reloading", !.dirty = TRUE] /\ conn[d].pc = "publishing"
        BY <2>6, <3>2 DEF Publish, At
      <4> QED
        BY <3>1, <4>1 DEF SameBoard, Connection, Listening
    <3>3. CASE d # c
      <4>1. conn'[d] = [conn[d] EXCEPT !.dirty = TRUE] \/ conn'[d] = conn[d]
        BY <2>6, <3>3 DEF Publish
      <4> QED
        BY <3>1, <4>1 DEF SameBoard, Connection
    <3> QED
      BY <3>2, <3>3
  <2> QED
    BY <2>3, <2>4, <2>5, <2>6 DEF Board
<1> USE DEF registry, handles
<1>3. IdsInOrder' /\ MutexHeld' /\ AnswerStands' /\ DeletedStaysDeleted' /\ ExportIsCurrent'
  <2>1. \A d \in Conn : conn'[d].pc \in {"checking", "opening"} =>
                           conn'[d].pc = conn[d].pc /\ conn'[d].tenant = conn[d].tenant
    BY <1>2 DEF SameBoard, Listening
  <2> QED
    BY <1>1, <2>1 DEF IInv, IdsInOrder, Registered, MutexHeld, AnswerStands, DeletedStaysDeleted,
                      ExportIsCurrent
<1>4. ListsAreOwn'
  <2> SUFFICES ASSUME NEW d \in Conn PROVE OwnList(d)'
    BY DEF ListsAreOwn
  <2>1. OwnList(d) /\ SameBoard(d)
    BY <1>2 DEF IInv, ListsAreOwn
  <2>2. /\ conn'[d].key = conn[d].key /\ conn'[d].tenants = conn[d].tenants
        /\ conn'[d].tenant = conn[d].tenant
        /\ conn'[d].pc \in Boarding => conn[d].pc \in Boarding
        /\ conn'[d].pc # "off" => conn[d].pc # "off"
    BY <2>1 DEF SameBoard, Boarding, Listening
  <2> QED
    BY <1>1, <2>1, <2>2 DEF OwnList, MayEnter
<1>5. StoresAreCached' /\ OneStore'
  <2>1. \A d \in Conn : /\ conn'[d].tenant = conn[d].tenant /\ conn'[d].store = conn[d].store
                        /\ conn[d].pc \in Boarding => conn'[d].pc \in Boarding
    BY <1>2 DEF SameBoard, Boarding, Listening
  <2> QED
    BY <1>1, <2>1 DEF IInv, StoresAreCached, OneStore, BeingDeleted
<1>6. ExportOnTheWay'
  <2>1. \/ wal[op.tenant] \in Nat /\ wal'[op.tenant] \in Nat /\ op.asked \in Nat
        \/ op.pc = "rest"
    BY <1>0, Bounds DEF Operation, TypeOK, FilesOK, IInv, AnswerStands, Tenant, RegistryOK
  <2>2. op.pc # "rest" => op.tenant \in Tenant
    BY Bounds DEF TypeOK, IInv, AnswerStands, Tenant, RegistryOK
  <2> QED
    BY <1>1, <2>1, <2>2 DEF IInv, ExportOnTheWay
<1> QED
  BY <1>3, <1>4, <1>5, <1>6 DEF Safe
-----------------------------------------------------------------------------
(* Opening a board: the mutex is taken, the registry is asked, and the      *)
(* store comes out of the cache or is opened.                               *)
LEMMA PickKeeps == ASSUME IInv, TypeOK', NEW c \in Conn, Pick(c) PROVE Safe'
<1> USE DEF Boarding, Listening, registry, files
<1>0. /\ conn \in [Conn -> Connection] /\ conn[c] \in Connection /\ OwnList(c)
      /\ IdsInOrder /\ MutexHeld /\ AnswerStands /\ ListsAreOwn /\ StoresAreCached
  BY DEF IInv, TypeOK, ListsAreOwn
<1>1. /\ UNCHANGED <<registry, files, cached, op, erased>>
      /\ lock = None /\ lock' = c /\ conn[c].pc = "picking"
  BY DEF Pick, HandleLock, At
<1>2. PICK listed \in conn[c].tenants :
          conn' = [conn EXCEPT ![c] = [conn[c] EXCEPT !.pc = "checking", !.tenant = listed.id,
                                                     !.tenants = {}]]
  BY DEF Pick, Chosen, Set
<1>3. /\ conn'[c].pc = "checking" /\ conn'[c].tenant = listed.id /\ conn'[c].tenants = {}
      /\ conn'[c].key = conn[c].key /\ conn'[c].store = 0
      /\ \A d \in Conn \ {c} : conn'[d] = conn[d]
  <2>1. conn[c].store = 0
    BY <1>0, <1>1 DEF StoresAreCached
  <2> DEFINE q == [conn[c] EXCEPT !.pc = "checking", !.tenant = listed.id, !.tenants = {}]
  <2>2. /\ q.pc = "checking" /\ q.tenant = listed.id /\ q.tenants = {}
        /\ q.key = conn[c].key /\ q.store = conn[c].store
    BY <1>0 DEF Connection
  <2>3. conn'[c] = q /\ \A d \in Conn \ {c} : conn'[d] = conn[d]
    BY <1>0, <1>2
  <2> HIDE DEF q
  <2> QED
    BY <2>1, <2>2, <2>3
<1>4. IdsInOrder' /\ DeletedStaysDeleted' /\ ExportIsCurrent' /\ ExportOnTheWay' /\ AnswerStands'
  BY <1>0, <1>1, <1>3 DEF IInv, IdsInOrder, Registered, DeletedStaysDeleted, ExportIsCurrent,
                          ExportOnTheWay, AnswerStands
<1>5. MutexHeld'
  BY <1>0, <1>1, <1>3, TenancyAssumption DEF MutexHeld
<1>6. ListsAreOwn'
  <2> SUFFICES ASSUME NEW d \in Conn PROVE OwnList(d)'
    BY DEF ListsAreOwn
  <2>1. MayEnter(conn[c].key, listed.id) /\ conn[c].key \in Key
    BY <1>0, <1>2 DEF OwnList
  <2>2. OwnList(d)
    BY <1>0 DEF ListsAreOwn
  <2> QED
    BY <1>1, <1>3, <2>1, <2>2 DEF OwnList, MayEnter
<1>7. StoresAreCached' /\ OneStore'
  BY <1>0, <1>1, <1>3 DEF IInv, StoresAreCached, OneStore, BeingDeleted
<1> QED
  BY <1>4, <1>5, <1>6, <1>7 DEF Safe

LEMMA CheckKeeps == ASSUME IInv, TypeOK', NEW c \in Conn, BoardCheck(c) PROVE Safe'
<1> USE DEF Boarding, Listening, registry, files
<1>0. /\ conn \in [Conn -> Connection] /\ conn[c] \in Connection /\ OwnList(c)
      /\ IdsInOrder /\ MutexHeld /\ AnswerStands /\ ListsAreOwn /\ StoresAreCached /\ OneStore
  BY DEF IInv, TypeOK, ListsAreOwn
<1>1. /\ UNCHANGED <<registry, files, cached, op, erased>>
      /\ lock = c /\ lock' \in {c, None} /\ conn[c].pc = "checking"
      /\ \A d \in Conn \ {c} : conn'[d] = conn[d]
  BY <1>0 DEF BoardCheck, Goto, Set, Unlock, At, MutexHeld
<1>2. \/ /\ conn'[c].pc = "opening" /\ lock' = c
         /\ conn[c].tenant \in Registered
         /\ conn'[c].tenant = conn[c].tenant /\ conn'[c].tenants = conn[c].tenants
         /\ conn'[c].key = conn[c].key /\ conn'[c].store = conn[c].store
      \/ conn'[c].pc = "off" /\ conn'[c].tenants = {} /\ conn'[c].store = 0
  <2>1. CASE conn[c].tenant \in Registered
    <3>1. conn'[c] = [conn[c] EXCEPT !.pc = "opening"] /\ lock' = lock
      BY <1>0, <2>1 DEF BoardCheck, Goto, Set
    <3> QED
      BY <1>0, <1>1, <2>1, <3>1 DEF Connection
  <2>2. CASE conn[c].tenant \notin Registered
    <3>1. conn'[c] = Nobody
      BY <1>0, <2>2 DEF BoardCheck, Set
    <3> QED
      BY <3>1 DEF Nobody
  <2> QED
    BY <2>1, <2>2
<1>3. IdsInOrder' /\ DeletedStaysDeleted' /\ ExportIsCurrent' /\ ExportOnTheWay'
  BY <1>0, <1>1 DEF IInv, IdsInOrder, Registered, DeletedStaysDeleted, ExportIsCurrent,
                    ExportOnTheWay
<1>4. AnswerStands'
  BY <1>0, <1>1, <1>2 DEF AnswerStands, Registered
<1>5. MutexHeld'
  BY <1>0, <1>1, <1>2, TenancyAssumption DEF MutexHeld
<1>6. ListsAreOwn'
  <2> SUFFICES ASSUME NEW d \in Conn PROVE OwnList(d)'
    BY DEF ListsAreOwn
  <2>1. OwnList(d)
    BY <1>0 DEF ListsAreOwn
  <2> QED
    BY <1>0, <1>1, <1>2, <2>1 DEF OwnList, MayEnter
<1>7. StoresAreCached' /\ OneStore'
  BY <1>0, <1>1, <1>2 DEF StoresAreCached, OneStore, BeingDeleted
<1> QED
  BY <1>3, <1>4, <1>5, <1>6, <1>7 DEF Safe

(* Who holds the mutex and opens: no store of the tenant is in use but the  *)
(* cached one.                                                              *)
LEMMA OpenKeeps == ASSUME IInv, TypeOK', NEW c \in Conn, BoardOpen(c) PROVE Safe'
<1> USE DEF Boarding, Listening, registry
<1>0. /\ conn \in [Conn -> Connection] /\ conn[c] \in Connection /\ OwnList(c)
      /\ cached \in [Tenant -> Nat] /\ ids \in 0..MaxTenants
      /\ IdsInOrder /\ MutexHeld /\ AnswerStands /\ ListsAreOwn /\ StoresAreCached /\ OneStore
  BY DEF IInv, TypeOK, ListsAreOwn, RegistryOK, FilesOK
<1> DEFINE t == conn[c].tenant
<1>1. /\ UNCHANGED <<registry, wal, main, op, erased>>
      /\ lock = c /\ lock' = None /\ conn[c].pc = "opening"
  BY <1>0 DEF BoardOpen, Unlock, At, MutexHeld
<1>2. PICK s \in Stores : /\ OpenOrCached(t, s)
                          /\ conn' = [conn EXCEPT ![c] = [conn[c] EXCEPT !.pc = "subscribing", !.store = s]]
  BY DEF BoardOpen, Set
<1>3. /\ t \in Tenant /\ slug[t] # None
      /\ \A d \in Conn \ {c} : conn[d].pc \notin {"checking", "opening"}
      /\ op.pc \notin {"deleting", "unlinking", "opening"}
  BY <1>0, <1>1, Bounds, TenancyAssumption DEF AnswerStands, MutexHeld, OwnList, MayEnter, Tenant
<1>4. /\ conn'[c].pc = "subscribing" /\ conn'[c].tenant = t
      /\ conn'[c].tenants = conn[c].tenants
      /\ conn'[c].key = conn[c].key /\ conn'[c].store = s
      /\ \A d \in Conn \ {c} : conn'[d] = conn[d]
  <2> DEFINE q == [conn[c] EXCEPT !.pc = "subscribing", !.store = s]
  <2>2. /\ q.pc = "subscribing" /\ q.tenant = t /\ q.tenants = conn[c].tenants
        /\ q.key = conn[c].key /\ q.store = s
    BY <1>0 DEF Connection
  <2>3. conn'[c] = q /\ \A d \in Conn \ {c} : conn'[d] = conn[d]
    BY <1>0, <1>2
  <2> HIDE DEF q
  <2> QED
    BY <2>2, <2>3
<1>5. /\ cached'[t] = s
      /\ cached[t] # 0 => cached' = cached
      /\ \A u \in Tenant \ {t} : cached'[u] = cached[u]
      /\ file' \subseteq file \cup {t}
  BY <1>0, <1>2, <1>3 DEF OpenOrCached, Keep
<1>6. IdsInOrder' /\ ExportIsCurrent' /\ ExportOnTheWay' /\ AnswerStands'
  BY <1>0, <1>1, <1>3, <1>4 DEF IInv, IdsInOrder, Registered, ExportIsCurrent,
                    ExportOnTheWay, AnswerStands
<1>7. DeletedStaysDeleted'
  <2>1. t \notin erased /\ erased \subseteq Tenant
    BY <1>0, <1>3 DEF IdsInOrder, IInv, TypeOK
  <2> QED
    BY <1>1, <1>5, <2>1 DEF IInv, DeletedStaysDeleted
<1>8. MutexHeld'
  BY <1>1, <1>3, <1>4 DEF MutexHeld
<1>9. ListsAreOwn'
  <2> SUFFICES ASSUME NEW d \in Conn PROVE OwnList(d)'
    BY DEF ListsAreOwn
  <2>1. OwnList(d)
    BY <1>0 DEF ListsAreOwn
  <2> QED
    BY <1>0, <1>1, <1>4, <2>1 DEF OwnList, MayEnter
<1>10. \A d \in Conn \ {c} : conn[d].store # 0 =>
          /\ conn[d].pc \in Boarding /\ conn[d].tenant \in Tenant
          /\ conn[d].tenant = t => conn[d].store = s
  BY <1>0, <1>3, <1>5, Bounds
     DEF StoresAreCached, BeingDeleted, ListsAreOwn, OwnList, MayEnter, Tenant
<1>11. StoresAreCached'
  BY <1>0, <1>1, <1>3, <1>4, <1>5, <1>10 DEF StoresAreCached, BeingDeleted
<1>12. OneStore'
  BY <1>0, <1>4, <1>10 DEF OneStore
<1> QED
  BY <1>6, <1>7, <1>8, <1>9, <1>11, <1>12 DEF Safe
-----------------------------------------------------------------------------
(* The operator: deletes under the mutex from the answer to the last file,  *)
(* and exports.                                                             *)
LEMMA DeleteStartKeeps == ASSUME IInv, TypeOK', NEW t \in Tenant, DeleteStart(t) PROVE Safe'
<1>0. /\ op \in Operation /\ cached \in [Tenant -> Nat]
      /\ IdsInOrder /\ MutexHeld /\ AnswerStands /\ ListsAreOwn /\ StoresAreCached
      /\ DeletedStaysDeleted
  BY DEF IInv, TypeOK, FilesOK
<1>1. /\ UNCHANGED <<registry, files, conn, erased>>
      /\ lock = None /\ lock' = Operator /\ slug[t] # None /\ t \in 1..ids
      /\ cached' = [cached EXCEPT ![t] = 0]
      /\ op' = [op EXCEPT !.pc = "deleting", !.tenant = t]
  BY <1>0, Bounds DEF DeleteStart, HandleLock, Registered, IdsInOrder, Tenant, IInv, TypeOK, RegistryOK
<1>2. op'.pc = "deleting" /\ op'.tenant = t
  BY <1>0, <1>1 DEF Operation
<1>3. \A c \in Conn : conn[c].pc \notin {"checking", "opening"}
  BY <1>0, <1>1, TenancyAssumption DEF MutexHeld
<1> USE DEF registry, files
<1>4. IdsInOrder' /\ MutexHeld' /\ AnswerStands'
  BY <1>0, <1>1, <1>2, <1>3 DEF IdsInOrder, Registered, MutexHeld, AnswerStands
<1>5. ListsAreOwn'
  BY <1>0, <1>1 DEF ListsAreOwn, OwnList, MayEnter
<1>6. StoresAreCached'
  <2>1. \A c \in Conn : conn[c].store # 0 => conn[c].tenant \in Tenant
    BY <1>0, Bounds DEF StoresAreCached, ListsAreOwn, OwnList, MayEnter, Tenant, IInv, TypeOK, RegistryOK
  <2>2. op.pc # "deleting"
    BY <1>0, <1>1, TenancyAssumption DEF MutexHeld
  <2> QED
    BY <1>0, <1>1, <1>2, <2>1, <2>2 DEF StoresAreCached, BeingDeleted
<1>7. DeletedStaysDeleted' /\ OneStore' /\ ExportIsCurrent' /\ ExportOnTheWay'
  BY <1>0, <1>1, <1>2 DEF IInv, TypeOK, DeletedStaysDeleted, OneStore, ExportIsCurrent, ExportOnTheWay
<1> QED
  BY <1>4, <1>5, <1>6, <1>7 DEF Safe

LEMMA DeleteRowsKeeps == ASSUME IInv, TypeOK', DeleteRows PROVE Safe'
<1>0. /\ op \in Operation /\ slug \in [Tenant -> Slug \cup {None}]
      /\ role \in [Tenant -> [Key -> {"owner", "member", None}]]
      /\ IdsInOrder /\ MutexHeld /\ AnswerStands /\ ListsAreOwn /\ StoresAreCached
      /\ DeletedStaysDeleted /\ OneStore /\ ids \in 0..MaxTenants
  BY DEF IInv, TypeOK, RegistryOK
<1> DEFINE t == op.tenant
<1>1. /\ UNCHANGED <<ids, files, handles, conn, erased>> /\ lock = Operator
      /\ slug' = [slug EXCEPT ![t] = None]
      /\ role' = [role EXCEPT ![t] = [k \in Key |-> None]]
      /\ op' = [op EXCEPT !.pc = "unlinking"]
      /\ t \in Tenant /\ t \in 1..ids /\ cached[t] = 0 /\ op.pc = "deleting"
  BY <1>0, Bounds DEF DeleteRows, Cascaded, OpGoto, AnswerStands, MutexHeld, Tenant
<1>2. op'.pc = "unlinking" /\ op'.tenant = t
  BY <1>0, <1>1 DEF Operation
<1>3. \A c \in Conn : conn[c].pc \notin {"checking", "opening"}
  BY <1>0, <1>1, TenancyAssumption DEF MutexHeld
<1> USE DEF files, handles
<1>4. IdsInOrder' /\ MutexHeld' /\ AnswerStands'
  BY <1>0, <1>1, <1>2, <1>3 DEF IdsInOrder, Registered, MutexHeld, AnswerStands, IInv, TypeOK
<1>5. ListsAreOwn'
  <2> SUFFICES ASSUME NEW c \in Conn PROVE OwnList(c)'
    BY DEF ListsAreOwn
  <2>1. OwnList(c)
    BY <1>0 DEF ListsAreOwn
  <2>2. \A k \in Key, u \in Tenant : MayEnter(k, u) => MayEnter(k, u)'
    BY <1>0, <1>1 DEF MayEnter
  <2>3. \A l \in conn[c].tenants : l.id \in Tenant
    BY ConnectionFields DEF IInv, TypeOK, Listed
  <2>4. conn[c].pc \in Boarding => conn[c].tenant \in Tenant /\ conn[c].key \in Key
    BY <1>0, <2>1, Bounds DEF OwnList, MayEnter, Tenant, Boarding, Listening
  <2> QED
    BY <1>1, <2>1, <2>2, <2>3, <2>4 DEF OwnList, MayEnter
<1>6. StoresAreCached'
  <2>1. \A c \in Conn : conn[c].store # 0 => conn[c].tenant \in Tenant
    BY <1>0, Bounds DEF StoresAreCached, ListsAreOwn, OwnList, MayEnter, Tenant
  <2> QED
    BY <1>0, <1>1, <1>2, <2>1 DEF StoresAreCached, BeingDeleted
<1>7. DeletedStaysDeleted' /\ OneStore' /\ ExportIsCurrent' /\ ExportOnTheWay'
  BY <1>0, <1>1, <1>2 DEF DeletedStaysDeleted, OneStore, ExportIsCurrent, ExportOnTheWay
<1> QED
  BY <1>4, <1>5, <1>6, <1>7 DEF Safe

LEMMA DeleteEndKeeps == ASSUME IInv, TypeOK', DeleteFiles \/ DeleteFails PROVE Safe'
<1>0. /\ op \in Operation /\ IdsInOrder /\ MutexHeld /\ AnswerStands /\ ListsAreOwn
      /\ StoresAreCached /\ DeletedStaysDeleted
  BY DEF IInv, TypeOK
<1>1. /\ UNCHANGED <<registry, cached, conn>> /\ lock = Operator /\ lock' = None
      /\ op' = Resting /\ op.pc = "unlinking" /\ file' \subseteq file
      /\ erased' \subseteq erased \cup {op.tenant} /\ op.tenant \in 1..ids
      /\ op.tenant \in erased' \ erased => op.tenant \notin file'
  BY <1>0 DEF DeleteFiles, DeleteFails, MutexHeld, Unlock, files, AnswerStands
<1>2. op'.pc = "rest"
  BY <1>1 DEF Resting
<1>3. \A c \in Conn : conn[c].pc \notin {"checking", "opening"}
  BY <1>0, <1>1, TenancyAssumption DEF MutexHeld
<1> USE DEF registry
<1>4. IdsInOrder' /\ MutexHeld' /\ AnswerStands' /\ DeletedStaysDeleted'
  BY <1>0, <1>1, <1>2, <1>3
     DEF IdsInOrder, Registered, MutexHeld, AnswerStands, DeletedStaysDeleted
<1>5. ListsAreOwn'
  BY <1>0, <1>1 DEF ListsAreOwn, OwnList, MayEnter
<1>6. StoresAreCached'
  BY <1>0, <1>1 DEF StoresAreCached, BeingDeleted
<1>7. OneStore' /\ ExportIsCurrent' /\ ExportOnTheWay'
  BY <1>1, <1>2 DEF IInv, OneStore, ExportIsCurrent, ExportOnTheWay
<1> QED
  BY <1>4, <1>5, <1>6, <1>7 DEF Safe

LEMMA ExportStartKeeps == ASSUME IInv, TypeOK', NEW t \in Tenant, ExportStart(t) PROVE Safe'
<1>0. /\ op \in Operation /\ wal \in [Tenant -> Nat] /\ IdsInOrder /\ MutexHeld /\ AnswerStands
      /\ ListsAreOwn /\ StoresAreCached /\ DeletedStaysDeleted
  BY DEF IInv, TypeOK, FilesOK
<1>1. /\ UNCHANGED <<registry, files, cached, conn, erased>>
      /\ lock = None /\ lock' = Operator /\ slug[t] # None /\ t \in 1..ids
      /\ op' = [op EXCEPT !.pc = "opening", !.tenant = t, !.asked = wal[t]]
  BY <1>0, Bounds DEF ExportStart, HandleLock, Registered, IdsInOrder, Tenant, IInv, TypeOK, RegistryOK
<1>2. op'.pc = "opening" /\ op'.tenant = t /\ op'.asked = wal[t] /\ wal[t] \in Nat
  BY <1>0, <1>1 DEF Operation
<1>3. /\ \A c \in Conn : conn[c].pc \notin {"checking", "opening"}
      /\ op.pc # "deleting"
  BY <1>0, <1>1, TenancyAssumption DEF MutexHeld
<1> USE DEF registry, files
<1>4. IdsInOrder' /\ MutexHeld' /\ AnswerStands' /\ DeletedStaysDeleted'
  BY <1>0, <1>1, <1>2, <1>3
     DEF IdsInOrder, Registered, MutexHeld, AnswerStands, DeletedStaysDeleted
<1>5. ListsAreOwn'
  BY <1>0, <1>1 DEF ListsAreOwn, OwnList, MayEnter
<1>6. StoresAreCached'
  BY <1>0, <1>1, <1>3 DEF StoresAreCached, BeingDeleted
<1>7. OneStore' /\ ExportIsCurrent' /\ ExportOnTheWay'
  BY <1>1, <1>2 DEF IInv, OneStore, ExportIsCurrent, ExportOnTheWay
<1> QED
  BY <1>4, <1>5, <1>6, <1>7 DEF Safe

LEMMA ExportOpenKeeps == ASSUME IInv, TypeOK', ExportOpen PROVE Safe'
<1>0. /\ op \in Operation /\ cached \in [Tenant -> Nat] /\ ids \in 0..MaxTenants
      /\ IdsInOrder /\ MutexHeld /\ AnswerStands /\ ListsAreOwn /\ StoresAreCached
      /\ DeletedStaysDeleted /\ OneStore
  BY DEF IInv, TypeOK, RegistryOK, FilesOK
<1> DEFINE t == op.tenant
<1>1. /\ UNCHANGED <<registry, wal, main, conn, erased>>
      /\ op.pc = "opening" /\ lock = Operator /\ lock' = None
      /\ t \in Tenant /\ t \in 1..ids /\ slug[t] # None
  BY <1>0, Bounds DEF ExportOpen, Unlock, MutexHeld, AnswerStands, Tenant
<1>2. PICK s \in Stores : /\ OpenOrCached(t, s)
                          /\ op' = [op EXCEPT !.pc = "checkpoint", !.store = s]
  BY DEF ExportOpen
<1>3. op'.pc = "checkpoint" /\ op'.tenant = t /\ op'.asked = op.asked
  BY <1>0, <1>2 DEF Operation
<1>4. /\ cached[t] # 0 => cached' = cached
      /\ \A u \in Tenant \ {t} : cached'[u] = cached[u]
      /\ file' \subseteq file \cup {t}
  BY <1>0, <1>1, <1>2 DEF OpenOrCached, Keep
<1>5. \A c \in Conn : conn[c].pc \notin {"checking", "opening"}
  BY <1>0, <1>1, TenancyAssumption DEF MutexHeld
<1> USE DEF registry
<1>6. IdsInOrder' /\ MutexHeld' /\ AnswerStands'
  BY <1>0, <1>1, <1>3, <1>5 DEF IdsInOrder, Registered, MutexHeld, AnswerStands
<1>7. DeletedStaysDeleted'
  <2>1. t \notin erased /\ erased \subseteq Tenant
    BY <1>0, <1>1 DEF IdsInOrder, IInv, TypeOK
  <2> QED
    BY <1>0, <1>1, <1>4, <2>1 DEF DeletedStaysDeleted
<1>8. ListsAreOwn'
  BY <1>0, <1>1 DEF ListsAreOwn, OwnList, MayEnter
<1>9. StoresAreCached'
  <2>1. \A c \in Conn : conn[c].store # 0 => conn[c].tenant \in Tenant
    BY <1>0, Bounds DEF StoresAreCached, ListsAreOwn, OwnList, MayEnter, Tenant
  <2>2. \A c \in Conn : conn[c].store # 0 /\ conn[c].tenant = t => cached[t] = conn[c].store
    BY <1>0, <1>1 DEF StoresAreCached, BeingDeleted
  <2> QED
    BY <1>0, <1>1, <1>3, <1>4, <2>1, <2>2 DEF StoresAreCached, BeingDeleted
<1>10. OneStore' /\ ExportIsCurrent' /\ ExportOnTheWay'
  BY <1>0, <1>1, <1>3 DEF IInv, OneStore, ExportIsCurrent, ExportOnTheWay
<1> QED
  BY <1>6, <1>7, <1>8, <1>9, <1>10 DEF Safe

LEMMA CopyKeeps ==
    ASSUME IInv, TypeOK', ExportCheckpoint \/ CopyBegin \/ CopyEnd
    PROVE  Safe'
<1>0. /\ op \in Operation /\ wal \in [Tenant -> Nat] /\ main \in [Tenant -> Nat]
      /\ IdsInOrder /\ MutexHeld /\ AnswerStands /\ ListsAreOwn /\ StoresAreCached
      /\ DeletedStaysDeleted /\ ExportOnTheWay
  BY DEF IInv, TypeOK, FilesOK
<1>1. /\ UNCHANGED <<registry, file, wal, handles, conn, erased>>
      /\ op.pc \in {"checkpoint", "copy", "copying"}
      /\ op.tenant \in Tenant /\ op.tenant \in 1..ids
  BY <1>0, Bounds DEF ExportCheckpoint, CopyBegin, CopyEnd, files, AnswerStands, Tenant, IInv,
                      TypeOK, RegistryOK
<1>2. op'.pc \in {"rest", "copy", "copying"} /\ (op'.pc # "rest" => op'.tenant = op.tenant)
  <2>1. CASE ExportCheckpoint
    BY <1>0, <2>1 DEF ExportCheckpoint, OpGoto, Operation
  <2>2. CASE CopyBegin /\ op.tenant \in file
    BY <1>0, <2>2 DEF CopyBegin, Operation
  <2>3. CASE (CopyBegin /\ op.tenant \notin file) \/ CopyEnd
    BY <2>3 DEF CopyBegin, CopyEnd, Resting
  <2> QED
    BY <2>1, <2>2, <2>3
<1> USE DEF registry, handles
<1>3. IdsInOrder' /\ MutexHeld' /\ AnswerStands' /\ DeletedStaysDeleted'
  BY <1>0, <1>1, <1>2 DEF IdsInOrder, Registered, MutexHeld, AnswerStands, DeletedStaysDeleted
<1>4. ListsAreOwn'
  BY <1>0, <1>1 DEF ListsAreOwn, OwnList, MayEnter
<1>5. StoresAreCached'
  BY <1>0, <1>1 DEF StoresAreCached, BeingDeleted
<1>6. OneStore'
  BY <1>1 DEF IInv, OneStore
<1>7. ExportOnTheWay' /\ ExportIsCurrent'
  <2>1. CASE ExportCheckpoint
    BY <1>0, <1>1, <2>1 DEF ExportCheckpoint, Checkpointed, OpGoto, Operation, ExportOnTheWay,
                            ExportIsCurrent
  <2>2. CASE CopyBegin
    BY <1>0, <1>1, <2>2 DEF CopyBegin, Operation, ExportOnTheWay, ExportIsCurrent, files, Resting
  <2>3. CASE CopyEnd
    BY <2>3 DEF CopyEnd, Resting, ExportOnTheWay, ExportIsCurrent
  <2> QED
    BY <2>1, <2>2, <2>3
<1> QED
  BY <1>3, <1>4, <1>5, <1>6, <1>7 DEF Safe

(* What happens by itself. *)
LEMMA OthersKeep ==
    ASSUME IInv, TypeOK',
           \/ \E i \in invites : Expire(i)
           \/ \E t \in Tenant : AutoCheckpoint(t)
           \/ UNCHANGED vars
    PROVE  Safe'
<1>1. /\ UNCHANGED <<users, slug, role, ids, file, wal, handles, conn, op, erased>>
      /\ \A t \in Tenant : main'[t] = main[t] \/ main'[t] = wal[t]
  BY DEF Expire, AutoCheckpoint, vars, registry, files, IInv, TypeOK, FilesOK
<1> USE DEF handles
<1>2. IdsInOrder' /\ MutexHeld' /\ AnswerStands' /\ DeletedStaysDeleted'
  BY <1>1 DEF IInv, IdsInOrder, Registered, MutexHeld, AnswerStands, DeletedStaysDeleted
<1>3. ListsAreOwn'
  BY <1>1 DEF IInv, ListsAreOwn, OwnList, MayEnter
<1>4. StoresAreCached' /\ OneStore'
  BY <1>1 DEF IInv, StoresAreCached, BeingDeleted, OneStore
<1>5. ExportOnTheWay' /\ ExportIsCurrent'
  <2>1. op.pc # "rest" => op.tenant \in Tenant
    BY Bounds DEF IInv, AnswerStands, Tenant, TypeOK, RegistryOK
  <2> QED
    BY <1>1, <2>1 DEF IInv, ExportOnTheWay, ExportIsCurrent
<1> QED
  BY <1>2, <1>3, <1>4, <1>5 DEF Safe

LEMMA CrashKeeps == ASSUME IInv, TypeOK', Crash PROVE Safe'
<1>1. /\ UNCHANGED <<registry, file, erased>> /\ op'.pc = "rest"
      /\ \A t \in Tenant : cached'[t] = 0
      /\ \A c \in Conn : conn'[c].pc = "off" /\ conn'[c].store = 0 /\ conn'[c].tenants = {}
  BY DEF Crash, Nobody, Resting
<1> USE DEF registry
<1>2. IdsInOrder' /\ MutexHeld' /\ AnswerStands' /\ DeletedStaysDeleted'
  BY <1>1 DEF IInv, TypeOK, IdsInOrder, Registered, MutexHeld, AnswerStands, DeletedStaysDeleted
<1>3. ListsAreOwn' /\ StoresAreCached' /\ OneStore'
  BY <1>1 DEF ListsAreOwn, OwnList, Boarding, Listening, StoresAreCached, OneStore
<1>4. ExportOnTheWay' /\ ExportIsCurrent'
  BY <1>1 DEF ExportOnTheWay, ExportIsCurrent
<1> QED
  BY <1>2, <1>3, <1>4 DEF Safe

LEMMA StepHolds == IInv /\ [Next]_vars => IInv'
<1> SUFFICES ASSUME IInv, [Next]_vars PROVE IInv'
  OBVIOUS
<1>1. TypeOK'
  BY TypeStep
<1>2. Safe'
  <2>1. ASSUME NEW c \in Conn, Session(c) PROVE Safe'
    BY <1>1, <2>1, CommandKeeps, IdleKeeps, BoardKeeps, PickKeeps, CheckKeeps, OpenKeeps DEF Session
  <2>2. CASE Operate
    BY <1>1, <2>2, DeleteStartKeeps, DeleteRowsKeeps, DeleteEndKeeps, ExportStartKeeps,
       ExportOpenKeeps, CopyKeeps DEF Operate
  <2>3. CASE \/ \E i \in invites : Expire(i)
             \/ \E t \in Tenant : AutoCheckpoint(t)
             \/ UNCHANGED vars
    BY <1>1, <2>3, OthersKeep
  <2>4. CASE Crash
    BY <1>1, <2>4, CrashKeeps
  <2> QED
    BY <2>1, <2>2, <2>3, <2>4 DEF Next
<1> QED
  BY <1>1, <1>2 DEF IInv, Safe

-----------------------------------------------------------------------------
LEMMA IInvHolds == Spec => []IInv
<1>1. IInv /\ [Next]_vars => IInv'
  BY StepHolds
<1> QED
  BY <1>1, InitHolds, PTL DEF Spec

(* What was deleted stays deleted, however the deletion raced an opening.   *)
THEOREM DeletedForGood == Spec => []DeletedStaysDeleted
<1>1. IInv => DeletedStaysDeleted
  BY DEF IInv
<1> QED
  BY <1>1, IInvHolds, PTL

(* Only members have a board open.                                          *)
THEOREM MembersOnly == Spec => []OnlyMembersGetIn
<1>1. IInv => OnlyMembersGetIn
  BY DEF IInv, OnlyMembersGetIn, StoresAreCached, ListsAreOwn, OwnList, MayEnter, Registered
<1> QED
  BY <1>1, IInvHolds, PTL

(* All boards open on a tenant share one store.                             *)
THEOREM StoresAreShared == Spec => []OneStore
<1>1. IInv => OneStore
  BY DEF IInv
<1> QED
  BY <1>1, IInvHolds, PTL

(* An export holds what was committed when it was asked for.                *)
THEOREM ExportsAreCurrent == Spec => []ExportIsCurrent
<1>1. IInv => ExportIsCurrent
  BY DEF IInv
<1> QED
  BY <1>1, IInvHolds, PTL
=============================================================================

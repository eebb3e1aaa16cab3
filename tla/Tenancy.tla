------------------------------- MODULE Tenancy -------------------------------
(***************************************************************************)
(* The hosted board: one server process, a registry of users, tenants,     *)
(* memberships and invites, a directory of database files, and SSH         *)
(* connections that run control commands and boards                        *)
(* (cliban-tenancy: registry.rs, manager.rs; cliban-server: commands.rs,   *)
(* server.rs, shell.rs; cliban-tui: remote.rs, runtime.rs).                *)
(*                                                                         *)
(* Every registry call runs under the registry's mutex, so a call is one   *)
(* step; between two calls of one command anybody may come.  The manager's *)
(* handle and delete_tenant also hold the mutex on the cached handles, and *)
(* are taken apart here to see what it is good for.  A tenant's database   *)
(* is the number of writes committed to it, and how many of them have been *)
(* checkpointed from the WAL into the main file.                           *)
(*                                                                         *)
(* Bounds: MaxTenants ids and MaxCodes invite codes are ever handed out    *)
(* (both are 16 random bytes and never come twice), MaxWrites writes reach *)
(* a board, and the process may die at any time.                           *)
(***************************************************************************)
EXTENDS Naturals, FiniteSets

CONSTANTS
    Key,         \* SSH keys; a key enrolled is a user
    Conn,        \* connections, one board each
    Keys,        \* connection -> the keys it may authenticate with
    Slug,        \* names of boards
    None,        \* nobody, nothing
    PerUser,     \* max_tenants_per_user
    Global,      \* max_tenants_global
    MaxTenants, MaxCodes, MaxWrites

Tenant == 1..MaxTenants
Code == 1..MaxCodes
Operator == "operator"   \* who deletes and exports

ASSUME TenancyAssumption ==
    /\ Keys \in [Conn -> SUBSET Key]
    /\ None \notin Conn \cup Key \cup Slug \cup {Operator, "owner", "member"}
    /\ Operator \notin Conn
    /\ {MaxTenants, MaxCodes, MaxWrites} \subseteq Nat
    /\ IsFiniteSet(Conn)

VARIABLES
    users,      \* enrolled keys
    slug,       \* tenants: id -> slug, None when there is no such row
    role,       \* memberships: id -> key -> "owner", "member" or None
    invites,    \* rows of invites: [code, tenant, live]
    ids, codes, \* how many were handed out
    file,       \* the database files that exist
    wal, main,  \* id -> writes committed, and those in the main file
    cached,     \* the manager's handles: id -> store, 0 when not cached
    lock,       \* who holds the mutex on the handles
    conn,       \* the connections
    op,         \* what the operator is doing
    erased      \* tenants whose deletion answered Ok

registry == <<users, slug, role, invites, ids, codes>>
files == <<file, wal, main>>
handles == <<cached, lock>>
vars == <<registry, files, handles, conn, op, erased>>

Nobody == [pc |-> "off", key |-> None, known |-> FALSE, tenants |-> {},
           tenant |-> 0, store |-> 0, dirty |-> FALSE, view |-> 0]
Resting == [pc |-> "rest", tenant |-> 0, store |-> 0, asked |-> 0, began |-> 0]

Init == /\ users = {}
        /\ slug = [t \in Tenant |-> None]
        /\ role = [t \in Tenant |-> [k \in Key |-> None]]
        /\ invites = {}
        /\ ids = 0 /\ codes = 0
        /\ file = {}
        /\ wal = [t \in Tenant |-> 0] /\ main = [t \in Tenant |-> 0]
        /\ cached = [t \in Tenant |-> 0]
        /\ lock = None
        /\ conn = [c \in Conn |-> Nobody]
        /\ op = Resting
        /\ erased = {}

Registered == {t \in Tenant : slug[t] # None}
TenantsOf(k) == {t \in Registered : role[t][k] # None}
Owned(k) == {t \in Registered : role[t][k] = "owner"}

At(c, pc) == conn[c].pc = pc
Set(c, r) == conn' = [conn EXCEPT ![c] = r]
Goto(c, pc) == Set(c, [conn[c] EXCEPT !.pc = pc])

-----------------------------------------------------------------------------
(* Control commands (ssh host <command>).                                  *)

(* user_for_pubkey. *)
Known(k) == k \in users

(* auth_publickey: who the key belongs to is asked once, here. *)
Connect(c, k) == /\ At(c, "off")
                 /\ Set(c, [Nobody EXCEPT !.pc = "idle", !.key = k,
                                          !.known = Known(k)])
                 /\ UNCHANGED <<registry, files, handles, op, erased>>

(* The client goes, or quits its board: the task drops its handle. *)
Disconnect(c) == /\ conn[c].pc \in {"idle", "picking", "board"}
                 /\ Set(c, Nobody)
                 /\ UNCHANGED <<registry, files, handles, op, erased>>

(* signup and accept enroll the key first; enroll_key is idempotent. *)
Enroll(c, next) == /\ At(c, "idle")
                   /\ users' = users \cup {conn[c].key}
                   /\ Set(c, [conn[c] EXCEPT !.pc = next, !.known = TRUE])
                   /\ UNCHANGED <<slug, role, invites, ids, codes, files, handles,
                                  op, erased>>

WithinCaps(k) == Cardinality(Registered) < Global /\ Cardinality(Owned(k)) < PerUser

(* create_tenant: the caps, the slug and both rows in one transaction. *)
Signup(c, s) ==
    /\ At(c, "signup")
    /\ Goto(c, "idle")
    /\ IF WithinCaps(conn[c].key) /\ (\A t \in Registered : slug[t] # s) /\ ids < MaxTenants
       THEN /\ ids' = ids + 1
            /\ slug' = [slug EXCEPT ![ids'] = s]
            /\ role' = [role EXCEPT ![ids'][conn[c].key] = "owner"]
       ELSE UNCHANGED <<ids, slug, role>>
    /\ UNCHANGED <<users, invites, codes, files, handles, op, erased>>

(* Slips: a code that stays redeemable, and a membership row replaced. *)
SpentKept(i) == invites
JoinedReplaced(t, k) == [role EXCEPT ![t][k] = "member"]

Spent(i) == invites \ {i}
(* INSERT OR IGNORE: who belongs already keeps the role. *)
Joined(t, k) == IF role[t][k] = None THEN [role EXCEPT ![t][k] = "member"] ELSE role

(* redeem_invite, of a code this key was given, used, expired or not. *)
Accept(c) ==
    /\ At(c, "accept")
    /\ Goto(c, "idle")
    /\ \/ \E i \in invites : /\ i.live
                             /\ invites' = Spent(i)
                             /\ role' = Joined(i.tenant, conn[c].key)
       \/ UNCHANGED <<invites, role>>    \* unknown, used or expired
    /\ UNCHANGED <<users, slug, ids, codes, files, handles, op, erased>>

(* invite: the caller's memberships are read ... *)
InviteResolve(c, t) ==
    /\ At(c, "idle") /\ conn[c].known
    /\ t \in Owned(conn[c].key)
    /\ codes < MaxCodes
    /\ Set(c, [conn[c] EXCEPT !.pc = "invite", !.tenant = t])
    /\ UNCHANGED <<registry, files, handles, op, erased>>

(* ... and the invite is made by a second call, if the tenant is still      *)
(* there.  Making one sweeps the expired ones, of every tenant.             *)
InviteCreate(c) ==
    LET t == conn[c].tenant IN
    /\ At(c, "invite")
    /\ Set(c, [conn[c] EXCEPT !.pc = "idle", !.tenant = 0])
    /\ IF t \in Registered /\ codes < MaxCodes
       THEN /\ codes' = codes + 1
            /\ invites' = {i \in invites : i.live}
                          \cup {[code |-> codes', tenant |-> t, live |-> TRUE]}
       ELSE UNCHANGED <<codes, invites>>
    /\ UNCHANGED <<users, slug, role, ids, files, handles, op, erased>>

(* Seven days go by. *)
Expire(i) == /\ i.live
             /\ invites' = (invites \ {i}) \cup {[i EXCEPT !.live = FALSE]}
             /\ UNCHANGED <<users, slug, role, ids, codes, files, handles, conn, op,
                            erased>>

-----------------------------------------------------------------------------
(* TenantManager::handle, by a board or by an export: take the mutex on    *)
(* the handles, ask the registry, return the cached handle or open one.    *)

(* Slip: the mutex is taken for the map alone, after the check. *)
HandleLockNone(p) == lock \in {None, p} /\ UNCHANGED lock

HandleLock(p) == lock = None /\ lock' = p
Unlock(p) == lock' = IF lock = p THEN None ELSE lock

(* Slip: the opened handle is not kept. *)
KeepNot(t, store) == UNCHANGED cached

Keep(t, store) == cached' = [cached EXCEPT ![t] = store]

(* A store lives as long as somebody holds its handle: it is named by the   *)
(* least number that no living store of the tenant has.                     *)
Stores == 1..(Cardinality(Conn) + 2)
Living(t) == {conn[c].store : c \in {d \in Conn : conn[d].tenant = t}}
             \cup (IF op.tenant = t THEN {op.store} ELSE {})

(* Store::open creates the file when it is not there. *)
OpenOrCached(t, store) ==
    IF cached[t] # 0
    THEN store = cached[t] /\ UNCHANGED <<cached, file>>
    ELSE /\ store = CHOOSE n \in Stores : n \notin Living(t) /\ \A m \in 1..(n - 1) : m \in Living(t)
         /\ Keep(t, store)
         /\ file' = file \cup {t}

-----------------------------------------------------------------------------
(* A board (ssh -t host): shell_request lists the tenants of the user, one *)
(* is picked, perhaps minutes later, and a blocking task runs the board.   *)

Listing(k) == {[id |-> t, slug |-> slug[t]] : t \in TenantsOf(k)}

Shell(c) == /\ At(c, "idle") /\ conn[c].known
            /\ TenantsOf(conn[c].key) # {}
            /\ Set(c, [conn[c] EXCEPT !.pc = "picking", !.tenants = Listing(conn[c].key)])
            /\ UNCHANGED <<registry, files, handles, op, erased>>

(* Slip: the board is looked up by its slug when it is opened. *)
ChosenBySlug(listed) == LET named == {t \in Registered : slug[t] = listed.slug}
                        IN  IF named = {} THEN listed.id ELSE CHOOSE t \in named : TRUE

Chosen(listed) == listed.id

Pick(c) == /\ At(c, "picking")
           /\ HandleLock(c)
           /\ \E listed \in conn[c].tenants :
                Set(c, [conn[c] EXCEPT !.pc = "checking", !.tenant = Chosen(listed), !.tenants = {}])
           /\ UNCHANGED <<registry, files, cached, op, erased>>

BoardCheck(c) == /\ At(c, "checking")
                 /\ IF conn[c].tenant \in Registered
                    THEN Goto(c, "opening") /\ UNCHANGED lock
                    ELSE Set(c, Nobody) /\ Unlock(c)     \* TenantNotFound
                 /\ UNCHANGED <<registry, files, cached, op, erased>>

BoardOpen(c) == /\ At(c, "opening")
                /\ \E s \in Stores : /\ OpenOrCached(conn[c].tenant, s)
                                     /\ Set(c, [conn[c] EXCEPT !.pc = "subscribing", !.store = s])
                /\ Unlock(c)
                /\ UNCHANGED <<registry, wal, main, op, erased>>

(* The feed is the handle's: of it only "something came" matters, since a  *)
(* burst of events, or a lag, is one Refresh.                              *)
Subscribe(c) == /\ At(c, "subscribing")
                /\ Goto(c, "reloading")
                /\ UNCHANGED <<registry, files, handles, op, erased>>

(* reload: read the cards, then the rest, and draw. *)
Reload(c) == /\ At(c, "reloading")
             /\ Set(c, [conn[c] EXCEPT !.pc = "drawing", !.view = wal[conn[c].tenant]])
             /\ UNCHANGED <<registry, files, handles, op, erased>>

Draw(c) == /\ At(c, "drawing")
           /\ Goto(c, "board")
           /\ UNCHANGED <<registry, files, handles, op, erased>>

(* next_event finds the feed dirty: Refresh, before any queued key. *)
Poll(c) == /\ At(c, "board") /\ conn[c].dirty
           /\ Set(c, [conn[c] EXCEPT !.pc = "reloading", !.dirty = FALSE])
           /\ UNCHANGED <<registry, files, handles, op, erased>>

(* A command of the user: the write commits ... *)
Write(c) == LET t == conn[c].tenant IN
            /\ At(c, "board")
            /\ wal[t] < MaxWrites
            /\ wal' = [wal EXCEPT ![t] = @ + 1]
            /\ Goto(c, "publishing")
            /\ UNCHANGED <<registry, file, main, handles, op, erased>>

(* Slip: the feed is subscribed to, or drained, when the board is loaded. *)
ListeningLate == {"board", "publishing"}

Listening == {"reloading", "drawing", "board", "publishing"}
SameFeed(c, d) == /\ conn[d].tenant = conn[c].tenant
                  /\ conn[d].store = conn[c].store
                  /\ conn[d].pc \in Listening

(* ... is published on the feed of the tenant, its own session's included, *)
(* and the session reloads.                                                *)
Publish(c) == /\ At(c, "publishing")
              /\ conn' = [d \in Conn |->
                            IF d = c THEN [conn[c] EXCEPT !.pc = "reloading", !.dirty = TRUE]
                            ELSE IF SameFeed(c, d) THEN [conn[d] EXCEPT !.dirty = TRUE]
                            ELSE conn[d]]
              /\ UNCHANGED <<registry, files, handles, op, erased>>

-----------------------------------------------------------------------------
(* TenantManager::delete_tenant: the mutex is held to the end. *)

OpGoto(pc) == op' = [op EXCEPT !.pc = pc]

DeleteStart(t) == /\ op = Resting
                  /\ HandleLock(Operator)
                  /\ IF t \in Registered
                     THEN /\ op' = [op EXCEPT !.pc = "deleting", !.tenant = t]
                          /\ cached' = [cached EXCEPT ![t] = 0]
                     ELSE FALSE                          \* TenantNotFound
                  /\ UNCHANGED <<registry, files, conn, erased>>

(* ON DELETE CASCADE *)
Cascaded(t) == /\ role' = [role EXCEPT ![t] = [k \in Key |-> None]]
               /\ invites' = {i \in invites : i.tenant # t}

DeleteRows == /\ op.pc = "deleting"
              /\ slug' = [slug EXCEPT ![op.tenant] = None]
              /\ Cascaded(op.tenant)
              /\ OpGoto("unlinking")
              /\ UNCHANGED <<users, ids, codes, files, handles, conn, erased>>

(* The .db, .db-wal and .db-shm files; a file that is not there is fine. *)
DeleteFiles == /\ op.pc = "unlinking"
               /\ file' = file \ {op.tenant}
               /\ main' = [main EXCEPT ![op.tenant] = 0]
               /\ erased' = erased \cup {op.tenant}
               /\ op' = Resting
               /\ Unlock(Operator)
               /\ UNCHANGED <<registry, wal, cached, conn>>

(* remove_file fails: the error is returned, the rows are gone already, and *)
(* asking again answers TenantNotFound.                                     *)
DeleteFails == /\ op.pc = "unlinking"
               /\ op.tenant \in file
               /\ op' = Resting
               /\ Unlock(Operator)
               /\ UNCHANGED <<registry, files, cached, conn, erased>>

-----------------------------------------------------------------------------
(* TenantManager::export_tenant: the handle, a checkpoint on its writer    *)
(* thread, and a copy of the main file.  It holds the tenant's write_lock, *)
(* which boards, whose writes are one call each, do not take.              *)

ExportStart(t) == /\ op = Resting
                  /\ HandleLock(Operator)
                  /\ t \in Registered
                  /\ op' = [op EXCEPT !.pc = "opening", !.tenant = t, !.asked = wal[t]]
                  /\ UNCHANGED <<registry, files, cached, conn, erased>>

ExportOpen == /\ op.pc = "opening"
              /\ \E s \in Stores : /\ OpenOrCached(op.tenant, s)
                                   /\ op' = [op EXCEPT !.pc = "checkpoint", !.store = s]
              /\ Unlock(Operator)
              /\ UNCHANGED <<registry, wal, main, conn, erased>>

(* Slip: the copy is taken as the file is. *)
CheckpointedNot(t) == UNCHANGED main

Checkpointed(t) == main' = [main EXCEPT ![t] = wal[t]]

ExportCheckpoint == /\ op.pc = "checkpoint"
                    /\ Checkpointed(op.tenant)
                    /\ OpGoto("copy")
                    /\ UNCHANGED <<registry, file, wal, handles, conn, erased>>

CopyBegin == /\ op.pc = "copy"
             /\ op' = IF op.tenant \in file
                      THEN [op EXCEPT !.pc = "copying", !.began = main[op.tenant]]
                      ELSE Resting                       \* Io(NotFound)
             /\ UNCHANGED <<registry, files, handles, conn, erased>>

CopyEnd == /\ op.pc = "copying"
           /\ op' = Resting
           /\ UNCHANGED <<registry, files, handles, conn, erased>>

(* SQLite checkpoints by itself when the WAL has grown to 1000 pages. *)
AutoCheckpoint(t) == /\ cached[t] # 0
                     /\ t \in file /\ main[t] < wal[t]
                     /\ main' = [main EXCEPT ![t] = wal[t]]
                     /\ UNCHANGED <<registry, file, wal, handles, conn, op, erased>>

-----------------------------------------------------------------------------
(* The process dies, and is started again on what is on the disk. *)
Crash == /\ cached' = [t \in Tenant |-> 0]
         /\ lock' = None
         /\ conn' = [c \in Conn |-> Nobody]
         /\ op' = Resting
         /\ wal' = [t \in Tenant |-> IF t \in file THEN wal[t] ELSE 0]
         /\ UNCHANGED <<registry, file, main, erased>>

Board(c) == Subscribe(c) \/ Reload(c) \/ Draw(c) \/ Poll(c) \/ Publish(c)

(* The commands that write; whoami and members only print.                 *)
Command(c) == \/ Enroll(c, "signup") \/ Enroll(c, "accept")
              \/ \E s \in Slug : Signup(c, s)
              \/ Accept(c)
              \/ \E t \in Tenant : InviteResolve(c, t)
              \/ InviteCreate(c)

Session(c) == \/ \E k \in Keys[c] : Connect(c, k)
              \/ Disconnect(c)
              \/ Command(c)
              \/ Shell(c) \/ Pick(c) \/ BoardCheck(c) \/ BoardOpen(c)
              \/ Board(c) \/ Write(c)

Operate == \/ \E t \in Tenant : DeleteStart(t) \/ ExportStart(t)
           \/ DeleteRows \/ DeleteFiles \/ DeleteFails
           \/ ExportOpen \/ ExportCheckpoint \/ CopyBegin \/ CopyEnd

Next == \/ \E c \in Conn : Session(c)
        \/ Operate
        \/ \E i \in invites : Expire(i)
        \/ \E t \in Tenant : AutoCheckpoint(t)
        \/ Crash

(* A board's task runs by itself once it has its store: it subscribes,      *)
(* loads, polls its feed every 100 ms and publishes what it wrote.  Nothing *)
(* is asked of users or of the operator.                                    *)
Fairness == \A c \in Conn : WF_vars(Board(c))

Spec == Init /\ [][Next]_vars /\ Fairness

-----------------------------------------------------------------------------
(* A tenant whose deletion succeeded has no file again and is cached by     *)
(* nobody, however the deletion raced an opening (the comments in handle    *)
(* and delete_tenant).                                                      *)
DeletedStaysDeleted == \A t \in erased : t \notin file /\ cached[t] = 0

(* Whoever has a tenant's board open is a member of that tenant: what was   *)
(* picked from a list made minutes ago opens the board that was listed or   *)
(* none, a slug freed and taken again by others included.                   *)
OnlyMembersGetIn ==
    \A c \in Conn : conn[c].store # 0 /\ conn[c].tenant \in Registered
                    => role[conn[c].tenant][conn[c].key] # None

(* Every board open on a tenant shares one store, so one writer thread and  *)
(* one feed (handle's doc).                                                 *)
OneStore == \A c, d \in Conn :
                /\ conn[c].store # 0 /\ conn[d].store # 0
                /\ conn[c].tenant = conn[d].tenant
                => conn[c].store = conn[d].store

(* A registered tenant has the one owner who created it, even after that    *)
(* owner redeems an invite to it; and no membership or invite is left of a  *)
(* tenant that is gone.                                                     *)
TenantsAreOwned ==
    /\ \A t \in Registered : Cardinality({k \in Key : role[t][k] = "owner"}) = 1
    /\ \A t \in Tenant \ Registered : \A k \in Key : role[t][k] = None
    /\ \A i \in invites : i.tenant \in Registered

(* Nobody joins a tenant but by an invite that was good and is now spent.   *)
Joins(t, k) == role[t][k] = None /\ role'[t][k] = "member"
JoinSpendsInvite ==
    [][\A t \in Tenant, k \in Key :
          Joins(t, k) => \E i \in invites \ invites' : i.tenant = t /\ i.live]_vars

(* An export holds every write that was committed when it was asked for.    *)
ExportIsCurrent == op.pc = "copying" => op.began >= op.asked

(* Every board open on a tenant comes to show the writes of all of them:    *)
(* it subscribes before it loads, and a write is published after it is      *)
(* committed (board_session).                                               *)
Current(c) == conn[c].pc \notin Listening \/ conn[c].view = wal[conn[c].tenant]
BoardsCatchUp == \A c \in Conn : []<>Current(c)

(* Not so: a board whose tenant is deleted goes on writing to the unlinked  *)
(* file, and its writes succeed (runtime.rs, event_loop, takes a failing    *)
(* reload to end such a session).                                           *)
NoWriteIsLost == [][\A t \in Tenant : wal'[t] # wal[t] => t \in Registered]_vars

(* Not so: boards do not take the write lock, so a checkpoint can rewrite   *)
(* the main file while export_tenant copies it.                             *)
CopyIsOfOneState == op.pc = "copying" => main[op.tenant] = op.began

(* Not so: the user of a connection is read when it authenticates, and a    *)
(* second connection may enroll the key since (KeyInfo.user: "Some iff the  *)
(* key is enrolled").                                                       *)
KnownIffEnrolled == \A c \in Conn : conn[c].pc = "idle"
                                     => (conn[c].known <=> conn[c].key \in users)
=============================================================================

------------------------------ MODULE Accounts ------------------------------
(***************************************************************************)
(* The management statements of service/database_service.cpp and the system *)
(* catalogue of auth/system_catalog.cpp: users, databases and grants, kept  *)
(* in memory under one mutex and written out as a whole to a temporary file *)
(* that is renamed.  Databases also have a directory and an open Db in      *)
(* DefaultHandler; creating and dropping one takes several steps under      *)
(* database_admin_mutex.  The server may stop or crash and start again.     *)
(***************************************************************************)
EXTENDS Integers, FiniteSets

CONSTANTS Names,      \* user names other than root
          Keys,       \* passwords that are long enough
          Bases,      \* databases other than sys
          Privileges,
          Admins,     \* sessions
          Free,       \* nobody; nothing
          MaxOps,     \* bound: management statements
          CatalogFaults \* the sets of faults a behaviour may have

VARIABLES cat,        \* the catalogue in memory: users, databases, grants
          catDisk,    \* catalog.json
          dirs,       \* directories of databases
          opened,     \* opened_dbs_
          adminMutex, \* database_admin_mutex
          sess,       \* each session: who it is, its database, the step it is at
          up,         \* the server runs, is down, or cannot start
          promise,    \* what clients were last told of each object
          catFaults,
          lastOps     \* management statements that were begun

catVars == <<cat, catDisk, dirs, opened, adminMutex, sess, up, promise, catFaults, lastOps>>

Root == "root"
Sys == "sys"
Everywhere == "*.*"
GrantSet == [user : Names, db : Bases \cup {Everywhere}, priv : Privileges]
NoObject == "no object"
Objects == Names \cup Bases \cup {NoObject}

Fresh == [users |-> [n \in {Root} |-> Free], dbs |-> {Sys}, grants |-> {}]
AtRest == [user |-> Free, db |-> Free, at |-> "idle", what |-> Free, grant |-> {}]

\* After initialize_new and a first start.
CatalogInit ==
    /\ cat = Fresh /\ catDisk = Fresh
    /\ dirs = {Sys} /\ opened = {Sys}
    /\ adminMutex = Free
    /\ sess = [s \in Admins |-> AtRest]
    /\ up = "up"
    /\ promise = [o \in Objects |-> "absent"]
    /\ catFaults \in CatalogFaults
    /\ lastOps = 0

\* allowed: the grants that match, where a CONNECT needs any grant on the
\* database itself.
Allowed(user, priv, db) ==
    \/ user = Root
    \/ \E g \in cat.grants :
           /\ g.user = user
           /\ \/ priv = "CONNECT" /\ g.db = db
              \/ g.db \in {db, Everywhere} /\ g.priv \in {priv, "ALL"}

CanAdmin(s, priv) == Allowed(sess[s].user, priv, Free)
-----------------------------------------------------------------------------
\* save_unlocked: the file is replaced by the whole of the new catalogue, or
\* it is left as it was and the caller is told; memory has changed already.
\* What the statement was about is what clients are told, or is uncertain.

\* A mutant: only the temporary file is written.
SaveMut(new, object, status) ==
    /\ cat' = new
    /\ UNCHANGED <<catDisk, catFaults>>
    /\ promise' = [promise EXCEPT ![object] = status]

Save(new, object, status) ==
    /\ cat' = new
    /\ \/ catDisk' = new /\ promise' = [promise EXCEPT ![object] = status]
       \/ /\ "save" \in catFaults
          /\ UNCHANGED catDisk
          /\ promise' = [promise EXCEPT ![object] = "uncertain"]
    /\ UNCHANGED catFaults

Ready(s) == up = "up" /\ sess[s].at = "idle" /\ sess[s].user # Free
Counts == lastOps < MaxOps /\ lastOps' = lastOps + 1
Elsewhere == <<dirs, opened, adminMutex, sess, up>>

Login(s, n, key) ==
    /\ up = "up" /\ sess[s].user = Free
    /\ n \in DOMAIN cat.users
    /\ n # Root => cat.users[n] = key
    /\ \E d \in cat.dbs \cap opened :
           /\ n = Root \/ Allowed(n, "CONNECT", d)
           /\ sess' = [sess EXCEPT ![s].user = n, ![s].db = d]
    /\ UNCHANGED <<cat, catDisk, dirs, opened, adminMutex, up, promise, catFaults, lastOps>>

\* USE: the transaction of the session is destroyed with it.
Use(s, d) ==
    /\ Ready(s)
    /\ d \in cat.dbs \cap opened /\ d # sess[s].db
    /\ Allowed(sess[s].user, "CONNECT", d)
    /\ sess' = [sess EXCEPT ![s].db = d]
    /\ UNCHANGED <<cat, catDisk, dirs, opened, adminMutex, up, promise, catFaults, lastOps>>

CreateUser(s, n, key) ==
    /\ Ready(s) /\ CanAdmin(s, "CREATE_USER") /\ Counts
    /\ n \notin DOMAIN cat.users
    /\ Save([cat EXCEPT !.users = [m \in DOMAIN @ \cup {n} |-> IF m = n THEN key ELSE @[m]]], n, key)
    /\ UNCHANGED Elsewhere

AlterUser(s, n, key) ==
    /\ Ready(s) /\ Counts
    /\ sess[s].user = n \/ CanAdmin(s, "CREATE_USER")
    /\ n \in DOMAIN cat.users /\ cat.users[n] # key
    /\ Save([cat EXCEPT !.users[n] = key], n, key)
    /\ UNCHANGED Elsewhere

\* A mutant: the grants of the user stay.
DropUserMut(s, n) ==
    /\ Ready(s) /\ CanAdmin(s, "CREATE_USER") /\ Counts
    /\ n \in DOMAIN cat.users
    /\ Save([cat EXCEPT !.users = [m \in DOMAIN @ \ {n} |-> @[m]]], n, "absent")
    /\ UNCHANGED Elsewhere

DropUser(s, n) ==
    /\ Ready(s) /\ CanAdmin(s, "CREATE_USER") /\ Counts
    /\ n \in DOMAIN cat.users
    /\ \E gone \in {{g \in cat.grants : g.user = n}} :
           Save([cat EXCEPT !.users = [m \in DOMAIN @ \ {n} |-> @[m]], !.grants = @ \ gone],
                n, "absent")
    /\ UNCHANGED Elsewhere

\* GRANT looks for the database and at the rights of the giver first, and for
\* the user when it holds the catalogue's mutex.
CheckGrant(s, g) ==
    /\ Ready(s) /\ CanAdmin(s, "GRANT") /\ Counts
    /\ g.db # Everywhere => g.db \in cat.dbs \cap opened
    /\ sess[s].user # Root => g.priv # "ALL" /\ Allowed(sess[s].user, g.priv, g.db)
    /\ sess' = [sess EXCEPT ![s].at = "grant", ![s].grant = {g}]
    /\ UNCHANGED <<cat, catDisk, dirs, opened, adminMutex, up, promise, catFaults>>

Grant(s) ==
    /\ up = "up" /\ sess[s].at = "grant"
    /\ \E g \in sess[s].grant :
           IF g.user \in DOMAIN cat.users
           THEN Save([cat EXCEPT !.grants = @ \cup {g}], NoObject, "present")
           ELSE UNCHANGED <<cat, catDisk, promise, catFaults>>
    /\ sess' = [sess EXCEPT ![s].at = "idle", ![s].grant = {}]
    /\ UNCHANGED <<dirs, opened, adminMutex, up, lastOps>>

Revoke(s, g) ==
    /\ Ready(s) /\ CanAdmin(s, "GRANT") /\ Counts
    /\ g \in cat.grants
    /\ g.db # Everywhere => g.db \in cat.dbs \cap opened
    /\ Save([cat EXCEPT !.grants = @ \ {g}], NoObject, "absent")
    /\ UNCHANGED Elsewhere
-----------------------------------------------------------------------------
\* CREATE DATABASE and DROP DATABASE, step by step under the mutex.

Holds(s, place) == up = "up" /\ adminMutex = s /\ sess[s].at = place
Moves(s, place) == sess' = [sess EXCEPT ![s].at = place]
Ends(s) ==
    /\ adminMutex' = Free
    /\ sess' = [sess EXCEPT ![s].at = "idle", ![s].what = Free]

BeginCreate(s, d) ==
    /\ Ready(s) /\ CanAdmin(s, "CREATE") /\ Counts
    /\ adminMutex = Free /\ d \notin cat.dbs
    /\ adminMutex' = s
    /\ sess' = [sess EXCEPT ![s].at = "mkdir", ![s].what = d]
    /\ UNCHANGED <<cat, catDisk, dirs, opened, up, promise, catFaults>>

\* create_db refuses a directory that is there.
MakeDirectory(s) ==
    /\ Holds(s, "mkdir")
    /\ IF sess[s].what \in dirs
       THEN Ends(s) /\ UNCHANGED dirs
       ELSE /\ dirs' = dirs \cup {sess[s].what}
            /\ Moves(s, "open") /\ UNCHANGED adminMutex
    /\ UNCHANGED <<cat, catDisk, opened, up, promise, catFaults, lastOps>>

OpenDatabase(s) ==
    /\ Holds(s, "open")
    /\ opened' = opened \cup {sess[s].what}
    /\ Moves(s, "add")
    /\ UNCHANGED <<cat, catDisk, dirs, adminMutex, up, promise, catFaults, lastOps>>

\* A mutant: the name is not added.
AddDatabaseMut(s) ==
    /\ Holds(s, "add")
    /\ Save(cat, sess[s].what, "present")
    /\ Ends(s)
    /\ UNCHANGED <<dirs, opened, up, lastOps>>

AddDatabase(s) ==
    /\ Holds(s, "add")
    /\ \E d \in {sess[s].what} : Save([cat EXCEPT !.dbs = @ \cup {d}], d, "present")
    /\ Ends(s)
    /\ UNCHANGED <<dirs, opened, up, lastOps>>

BeginDrop(s, d) ==
    /\ Ready(s) /\ CanAdmin(s, "DROP") /\ Counts
    /\ adminMutex = Free /\ d \in cat.dbs
    /\ adminMutex' = s
    /\ sess' = [sess EXCEPT ![s].at = "close", ![s].what = d,
                            ![s].db = IF @ = d THEN Sys ELSE @]
    /\ UNCHANGED <<cat, catDisk, dirs, opened, up, promise, catFaults>>

\* drop_db: without a directory there is nothing to drop.
CloseDatabase(s) ==
    /\ Holds(s, "close")
    /\ IF sess[s].what \in dirs
       THEN /\ opened' = opened \ {sess[s].what}
            /\ Moves(s, "rmdir") /\ UNCHANGED adminMutex
       ELSE Ends(s) /\ UNCHANGED opened
    /\ UNCHANGED <<cat, catDisk, dirs, up, promise, catFaults, lastOps>>

RemoveDirectory(s) ==
    /\ Holds(s, "rmdir")
    /\ dirs' = dirs \ {sess[s].what}
    /\ promise' = [promise EXCEPT ![sess[s].what] = "uncertain"]
    /\ Moves(s, "remove")
    /\ UNCHANGED <<cat, catDisk, opened, adminMutex, up, catFaults, lastOps>>

\* A mutant: the name stays in the catalogue.
RemoveDatabaseMut(s) ==
    /\ Holds(s, "remove")
    /\ \E d \in {sess[s].what} :
           Save([cat EXCEPT !.grants = {g \in @ : g.db # d}], d, "absent")
    /\ Ends(s)
    /\ UNCHANGED <<dirs, opened, up, lastOps>>

RemoveDatabase(s) ==
    /\ Holds(s, "remove")
    /\ \E d \in {sess[s].what} :
           Save([cat EXCEPT !.dbs = @ \ {d}, !.grants = {g \in @ : g.db # d}], d, "absent")
    /\ Ends(s)
    /\ UNCHANGED <<dirs, opened, up, lastOps>>
-----------------------------------------------------------------------------
Down == /\ up' = "down"
        /\ opened' = {}
        /\ adminMutex' = Free
        /\ sess' = [s \in Admins |-> AtRest]

\* The server stops between statements, or crashes at any step.
Halt ==
    /\ up = "up"
    /\ (\A s \in Admins : sess[s].at = "idle") \/ "crash" \in catFaults
    /\ Down
    /\ UNCHANGED <<cat, catDisk, dirs, promise, catFaults, lastOps>>

\* open_or_initialize and initialize: one database that cannot be opened ends
\* the start of the server.
Restart ==
    /\ up = "down"
    /\ cat' = catDisk
    /\ IF catDisk.dbs \subseteq dirs
       THEN up' = "up" /\ opened' = catDisk.dbs
       ELSE up' = "cannot start" /\ UNCHANGED opened
    /\ UNCHANGED <<catDisk, dirs, adminMutex, sess, promise, catFaults, lastOps>>

CatalogNext ==
    \/ Halt \/ Restart
    \/ \E s \in Admins :
           \/ \E n \in Names \cup {Root}, key \in Keys : Login(s, n, key)
           \/ \E n \in Names, key \in Keys : CreateUser(s, n, key) \/ AlterUser(s, n, key)
           \/ \E n \in Names : DropUser(s, n)
           \/ \E g \in GrantSet : CheckGrant(s, g) \/ Revoke(s, g)
           \/ \E d \in Bases : Use(s, d) \/ BeginCreate(s, d) \/ BeginDrop(s, d)
           \/ Grant(s) \/ MakeDirectory(s) \/ OpenDatabase(s) \/ AddDatabase(s)
           \/ CloseDatabase(s) \/ RemoveDirectory(s) \/ RemoveDatabase(s)
-----------------------------------------------------------------------------
\* What a client was told of a user, a database or a grant is what the file
\* says, and so what the next start of the server reads: a failed save makes
\* only the object it was about uncertain, although every save writes all.
DoneIsDurable ==
    /\ \A n \in Names :
           promise[n] # "uncertain" =>
               IF promise[n] = "absent" THEN n \notin DOMAIN catDisk.users
               ELSE n \in DOMAIN catDisk.users /\ catDisk.users[n] = promise[n]
    /\ \A d \in Bases :
           promise[d] # "uncertain" => (promise[d] = "present" <=> d \in catDisk.dbs)

\* Every grant in memory and in the file is one of a user who exists.
GrantsHaveUsers ==
    \A c \in {cat, catDisk} : \A g \in c.grants : g.user \in DOMAIN c.users

\* A database that clients were told of exists: the server starts again, and
\* what is listed is open, except while it is being dropped.  A crash or a
\* failed save between the removal of the directory and that of the name
\* breaks it (such behaviours are excluded).
ListedDatabasesOpen ==
    catFaults = {} =>
        /\ up # "cannot start"
        /\ up = "up" => \A d \in cat.dbs : d \in opened \/ \E s \in Admins : sess[s].what = d

\* No two sessions are inside CREATE or DROP DATABASE, and whatever is open is
\* listed or about to be: a crash or a failed save leaves no open database
\* that cannot be dropped.
OpenDatabasesAreListed ==
    up = "up" => \A d \in opened :
        d \in cat.dbs \/ \E s \in Admins : adminMutex = s /\ sess[s].what = d

\* Through failed saves, crashes and restarts, with two administrators at
\* work: what clients were told is what the next start reads, grants belong to
\* users, and the databases listed and those open agree.
AccountsAreRight ==
    DoneIsDurable /\ GrantsHaveUsers /\ ListedDatabasesOpen /\ OpenDatabasesAreListed
=============================================================================

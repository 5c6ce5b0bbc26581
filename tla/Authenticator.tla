--------------------------- MODULE Authenticator ---------------------------
(***************************************************************************)
(* The keys a device lets in (xconn/auth.go): a map in memory, a file that *)
(* outlives the process, and the cloud that owns them.  On every connect   *)
(* xconn/run.go reads the whole list, stores it in both, and only then     *)
(* subscribes to the changes.  A session runs every event handler in a     *)
(* goroutine of its own (session.go), so handlers of two changes run side  *)
(* by side and in any order; each reads and rewrites the whole file.       *)
(*                                                                         *)
(* An authorized key list is a set (the code only searches and filters     *)
(* it), a principal without keys in the file is no principal, and a        *)
(* removal event names one key of one principal.                           *)
(***************************************************************************)
EXTENDS Naturals, FiniteSets

CONSTANTS
    AuthIDs,     \* the principals
    Keys,        \* their public keys
    MaxChanges,  \* bound: keys the cloud adds or removes
    MaxLists,    \* bound: successful connects of the device
    Unknown,     \* no entry in the map
    Nil          \* an entry that is a nil pointer

ASSUME AuthAssumption ==
    /\ MaxChanges \in Nat /\ MaxLists \in Nat
    /\ Unknown \notin Nat /\ Nil \notin Nat /\ Unknown # Nil

VARIABLES
    cloud,    \* what the cloud authorizes
    changes,  \* how many changes it has made
    up,       \* the process runs
    link,     \* where the connecting goroutine is
    listing,  \* the answer of ProcedureListKeys
    lists,    \* how many lists have been fetched
    objects,  \* objects[g]: the principals made of list g (0: of the file)
    mem,      \* principalByAuthID: whose object, Unknown or Nil
    file,     \* PrincipalsFile
    task,     \* task[n]: the goroutine that handles change n
    clean     \* nothing has happened since the list that the code cannot follow

vars == <<cloud, changes, up, link, listing, lists, objects, mem, file, task, clean>>

NoKeys == [a \in AuthIDs |-> {}]
Changes == 1..MaxChanges

Idle == [pc |-> "idle", kind |-> "add", who |-> CHOOSE a \in AuthIDs : TRUE,
         key |-> CHOOSE k \in Keys : TRUE, gen |-> Unknown, keys |-> {}, read |-> NoKeys]

Busy == {n \in Changes : task[n].pc \notin {"idle", "done"}}
Authorized(a) == IF mem[a] \in {Unknown, Nil} THEN {} ELSE objects[mem[a]][a]

TypeOK ==
    /\ cloud \in [AuthIDs -> SUBSET Keys]
    /\ changes \in 0..MaxChanges
    /\ lists \in 0..MaxLists
    /\ up \in BOOLEAN /\ clean \in BOOLEAN
    /\ link \in {"down", "listed", "writing", "set", "addTopic", "synced"}
    /\ listing \in [AuthIDs -> SUBSET Keys]
    /\ objects \in [0..MaxLists -> [AuthIDs -> SUBSET Keys]]
    /\ mem \in [AuthIDs -> 0..MaxLists \cup {Unknown, Nil}]
    /\ file \in [state : {"none", "empty", "full"}, keys : [AuthIDs -> SUBSET Keys]]
    /\ \A n \in Changes :
        /\ task[n].pc \in {"idle", "readFirst", "retrieve", "store", "readFile",
                           "truncate", "writing", "done"}
        /\ task[n].kind \in {"add", "remove"}
        /\ task[n].who \in AuthIDs /\ task[n].key \in Keys
        /\ task[n].gen \in 0..MaxLists \cup {Unknown, Nil}
        /\ task[n].keys \subseteq Keys
        /\ task[n].read \in [AuthIDs -> SUBSET Keys]

Init ==
    /\ cloud \in [AuthIDs -> SUBSET Keys]
    /\ changes = 0 /\ lists = 0
    /\ up = TRUE /\ link = "down" /\ clean = FALSE
    /\ listing = NoKeys
    /\ objects = [g \in 0..MaxLists |-> NoKeys]
    /\ mem = [a \in AuthIDs |-> Unknown]
    /\ file = [state |-> "none", keys |-> NoKeys]
    /\ task = [n \in Changes |-> Idle]

-----------------------------------------------------------------------------
(* SetPrincipals: a new map of new objects.                                *)

SetPrincipals(g, principals) ==
    /\ objects' = [objects EXCEPT ![g] = principals]
    /\ mem' = [a \in AuthIDs |-> IF principals[a] = {} THEN Unknown ELSE g]

\* Connecting: the list is fetched, written to the file (which os.WriteFile
\* first empties), stored in memory; then come the two subscriptions.
ListKeys ==
    /\ up /\ link = "down" /\ lists < MaxLists
    /\ link' = "listed"
    /\ lists' = lists + 1
    /\ listing' = cloud
    /\ clean' = (Busy = {})
    /\ UNCHANGED <<cloud, changes, up, objects, mem, file, task>>

TruncateList ==
    /\ up /\ link = "listed"
    /\ link' = "writing"
    /\ file' = [state |-> "empty", keys |-> NoKeys]
    /\ UNCHANGED <<cloud, changes, up, listing, lists, objects, mem, task, clean>>

WriteList ==
    /\ up /\ link = "writing"
    /\ link' = "set"
    /\ file' = [state |-> "full", keys |-> listing]
    /\ UNCHANGED <<cloud, changes, up, listing, lists, objects, mem, task, clean>>

\* A failure is logged: before the file was opened it is left as it was,
\* later it stays empty.
WriteListFails ==
    /\ up /\ link \in {"listed", "writing"}
    /\ link' = "set"
    /\ clean' = FALSE
    /\ UNCHANGED <<cloud, changes, up, listing, lists, objects, mem, file, task>>

StoreList ==
    /\ up /\ link = "set"
    /\ link' = "addTopic"
    /\ SetPrincipals(lists, listing)
    /\ UNCHANGED <<cloud, changes, up, listing, lists, file, task, clean>>

\* SubscribeEvents: keyAdded is subscribed by now, keyRemoved next.  An
\* error is logged and leaves the device short of "synced".
SubscribeEvents ==
    /\ up /\ link = "addTopic"
    /\ link' = "synced"
    /\ UNCHANGED <<cloud, changes, up, listing, lists, objects, mem, file, task, clean>>

LinkLost ==
    /\ up /\ link # "down"
    /\ link' = "down"
    /\ UNCHANGED <<cloud, changes, up, listing, lists, objects, mem, file, task, clean>>

-----------------------------------------------------------------------------
(* The cloud changes a key and publishes the event; whoever is subscribed  *)
(* starts a goroutine for it.  A change the device is not told of, that    *)
(* meets another handler, or that the handlers below do not follow, ends   *)
(* the time in which the copies can be expected to agree.                  *)

\* Topics the device follows where the connecting goroutine is now.
Heard(kind) == link = "synced" \/ (kind = "add" /\ link = "addTopic")

\* The changes auth.go follows: a further key of a principal it knows, or
\* the removal of one that is not the last.
Followed(kind, a, k) ==
    IF kind = "add" THEN mem[a] \notin {Unknown, Nil} ELSE cloud[a] # {k}

Change(kind, a, k) ==
    /\ changes < MaxChanges
    /\ changes' = changes + 1
    /\ kind = "add" <=> k \notin cloud[a]
    /\ cloud' = [cloud EXCEPT ![a] = IF kind = "add" THEN @ \cup {k} ELSE @ \ {k}]
    /\ LET told == up /\ Heard(kind)
       IN /\ task' = IF ~told THEN task
                     ELSE [task EXCEPT ![changes + 1] =
                              [Idle EXCEPT !.pc = IF kind = "add" THEN "retrieve" ELSE "readFirst",
                                           !.kind = kind, !.who = a, !.key = k]]
          /\ clean' = (clean /\ told /\ Busy = {} /\ Followed(kind, a, k))
    /\ UNCHANGED <<up, link, listing, lists, objects, mem, file>>

-----------------------------------------------------------------------------
(* handleAddKey and handleRemoveKey.                                       *)

\* What ReadPrincipalsFromFile returns: nothing of a file just emptied.
ReadPrincipals(n, next) ==
    /\ up /\ file.state # "none"
    /\ task' = [task EXCEPT ![n].pc = next, ![n].read = file.keys]
    /\ UNCHANGED <<cloud, changes, up, link, listing, lists, objects, mem, file, clean>>

\* An absent or half written file is an error and ends the handler, an add
\* after and a removal before it has changed the map.
ReadFails(n) ==
    /\ up /\ task[n].pc \in {"readFirst", "readFile"} /\ file.state # "full"
    /\ task' = [task EXCEPT ![n] = [Idle EXCEPT !.pc = "done"]]
    /\ clean' = FALSE
    /\ UNCHANGED <<cloud, changes, up, link, listing, lists, objects, mem, file>>

\* handleRemoveKey reads the file before it looks at the map, and writes
\* that file back in the end.
RemoveReadsFile(n) == task[n].pc = "readFirst" /\ ReadPrincipals(n, "retrieve")

\* RetrievePrincipal, and the load of its keys outside the lock.  A nil
\* principal of an earlier add is dereferenced here.
Retrieve(n) ==
    LET t == task[n]
        g == mem[t.who]
    IN /\ up /\ t.pc = "retrieve"
       /\ g # Nil
       /\ \/ /\ g = Unknown /\ t.kind = "remove"
             /\ task' = [task EXCEPT ![n].pc = "truncate"]
          \/ /\ g # Unknown \/ t.kind = "add"
             /\ task' = [task EXCEPT ![n].pc = "store", ![n].gen = g,
                            ![n].keys = IF g = Unknown THEN {} ELSE objects[g][t.who]]
       /\ UNCHANGED <<cloud, changes, up, link, listing, lists, objects, mem, file, clean>>

RetrieveNil(n) ==
    /\ up /\ task[n].pc = "retrieve" /\ mem[task[n].who] = Nil
    /\ up' = FALSE
    /\ UNCHANGED <<cloud, changes, link, listing, lists, objects, mem, file, task, clean>>

\* An unknown authid is stored with the nil pointer RetrievePrincipal gave.
StoreAdded(n) ==
    LET t == task[n]
    IN /\ up /\ t.pc = "store" /\ t.kind = "add"
       /\ IF t.gen = Unknown
          THEN mem' = [mem EXCEPT ![t.who] = Nil] /\ UNCHANGED objects
          ELSE /\ mem' = [mem EXCEPT ![t.who] = t.gen]
               /\ objects' = [objects EXCEPT ![t.gen][t.who] = t.keys \cup {t.key}]
       /\ task' = [task EXCEPT ![n].pc = "readFile"]
       /\ UNCHANGED <<cloud, changes, up, link, listing, lists, file, clean>>

\* Faulty variant: the new key goes into the map and not into the file.
AddReadsFileOnly(n) == task[n].pc = "readFile" /\ ReadPrincipals(n, "truncate")

AddReadsFile(n) ==
    LET t == task[n]
    IN /\ up /\ t.pc = "readFile" /\ file.state # "none"
       /\ task' = [task EXCEPT ![n].pc = "truncate",
                               ![n].read = [file.keys EXCEPT ![t.who] = @ \cup {t.key}]]
       /\ UNCHANGED <<cloud, changes, up, link, listing, lists, objects, mem, file, clean>>

\* The last key takes the entry out of the map and leaves the file's alone.
StoreRemoved(n) ==
    LET t == task[n]
        filtered == t.keys \ {t.key}
    IN /\ up /\ t.pc = "store" /\ t.kind = "remove"
       /\ IF filtered = {}
          THEN /\ mem' = [mem EXCEPT ![t.who] = Unknown]
               /\ task' = [task EXCEPT ![n].pc = "truncate"]
               /\ UNCHANGED objects
          ELSE /\ mem' = [mem EXCEPT ![t.who] = t.gen]
               /\ objects' = [objects EXCEPT ![t.gen][t.who] = filtered]
               /\ task' = [task EXCEPT ![n].pc = "truncate",
                              ![n].read[t.who] = IF @ = {} THEN {} ELSE filtered]
       /\ UNCHANGED <<cloud, changes, up, link, listing, lists, file, clean>>

TruncateFile(n) ==
    /\ up /\ task[n].pc = "truncate"
    /\ file' = [state |-> "empty", keys |-> NoKeys]
    /\ task' = [task EXCEPT ![n].pc = "writing"]
    /\ UNCHANGED <<cloud, changes, up, link, listing, lists, objects, mem, clean>>

WriteFile(n) ==
    /\ up /\ task[n].pc = "writing"
    /\ file' = [state |-> "full", keys |-> task[n].read]
    /\ task' = [task EXCEPT ![n] = [Idle EXCEPT !.pc = "done"]]
    /\ UNCHANGED <<cloud, changes, up, link, listing, lists, objects, mem, clean>>

\* As in WriteListFails: logged, and the handler is done.
WriteFileFails(n) ==
    /\ up /\ task[n].pc \in {"truncate", "writing"}
    /\ task' = [task EXCEPT ![n] = [Idle EXCEPT !.pc = "done"]]
    /\ clean' = FALSE
    /\ UNCHANGED <<cloud, changes, up, link, listing, lists, objects, mem, file>>

Handle(n) ==
    \/ RemoveReadsFile(n) \/ ReadFails(n) \/ Retrieve(n) \/ RetrieveNil(n)
    \/ StoreAdded(n) \/ AddReadsFile(n) \/ StoreRemoved(n)
    \/ TruncateFile(n) \/ WriteFile(n) \/ WriteFileFails(n)

-----------------------------------------------------------------------------
(* Authenticate looks the principal up without the lock: a nil entry is    *)
(* dereferenced, and a lookup that meets a write of the map may end the    *)
(* process.  Otherwise it changes nothing.                                 *)

AuthenticatePanics ==
    /\ up
    /\ \/ \E a \in AuthIDs : mem[a] = Nil
       \/ \E n \in Changes : task[n].pc = "store"
       \/ link = "set"
    /\ up' = FALSE
    /\ UNCHANGED <<cloud, changes, link, listing, lists, objects, mem, file, task, clean>>

\* The process ends at any moment, and starts again with what the file has.
Crash ==
    /\ up
    /\ up' = FALSE
    /\ UNCHANGED <<cloud, changes, link, listing, lists, objects, mem, file, task, clean>>

Restart ==
    /\ ~up
    /\ up' = TRUE
    /\ link' = "down"
    /\ clean' = FALSE
    /\ task' = [n \in Changes |-> Idle]
    /\ SetPrincipals(0, file.keys)
    /\ UNCHANGED <<cloud, changes, listing, lists, file>>

Next ==
    \/ ListKeys \/ TruncateList \/ WriteList \/ WriteListFails \/ StoreList \/ SubscribeEvents
    \/ LinkLost \/ AuthenticatePanics \/ Crash \/ Restart
    \/ \E kind \in {"add", "remove"}, a \in AuthIDs, k \in Keys : Change(kind, a, k)
    \/ \E n \in Changes : Handle(n)

Spec == Init /\ [][Next]_vars

-----------------------------------------------------------------------------
InSync == \A a \in AuthIDs : Authorized(a) = cloud[a] /\ file.keys[a] = cloud[a]

\* auth.go, run.go: a connected device with no handler under way authorizes
\* exactly the cloud's keys, in memory and in the file, provided that since
\* the last list no change fell between the list and the subscriptions, no
\* two handlers overlapped, no key came for an unknown authid, no principal
\* lost its last key, and no read or write of the file failed.  (Each of the
\* five really breaks it, until the next list.)
SyncedWhenFollowed ==
    /\ TypeOK
    /\ up /\ link = "synced" /\ Busy = {} /\ clean => InSync
=============================================================================

---------------------------- MODULE EtcdRegistry ----------------------------
(***************************************************************************)
(* EtcdRegistry: servers that each keep one node of a service in etcd, and *)
(* a listener in each.  A server has a thread that calls the registry and, *)
(* from its first registration on, the detached thread of startWatchLoop().*)
(* Both deliver notifications, and no lock covers the ls and the callback. *)
(* etcd and its client library are external, and modelled from how the     *)
(* code uses them.  put, rm and ls are atomic or fail; an entry goes when  *)
(* its lease is no longer kept alive.  Wait() returns true when the        *)
(* service changed since the watcher was made or last returned, which is   *)
(* what startWatchLoop() takes true to mean and no line of the repository  *)
(* states.  It may return false at any time, with or without the changes   *)
(* it would have returned for, and the watcher may be over with that.      *)
(***************************************************************************)
EXTENDS Naturals, FiniteSets

CONSTANTS Registries,
          MaxChanges,   \* bound: registrations and deregistrations
          MaxFailures   \* bound: requests to etcd, and waits for it, that fail

VARIABLES
  entries,   \* in etcd, the node of each server: "absent", "leased" or "forever"
  lease,     \* leaseId_: whether leasegrant() gave one
  caller,    \* the calling thread: "out", "idle", "ls", "callback", "watch" or "stopped"
  watch,     \* the watch thread: "none", "starting", "waiting", "ls", "callback" or "ended"
  event,     \* whether Wait() has a change to return for
  first,     \* whether the call under way is a registration, which goes on to the watch
  found,     \* what the ls of either thread returned
  view,      \* what the listener was told last
  changes, failures,
  raced,     \* history: a change fell before the watcher since the last ls, or that
             \* ls was made while the other thread was about to call the listener
  blind      \* history: the last ls failed, or Wait() failed on a change since

vars == <<entries, lease, caller, watch, event, first, found, view, changes, failures, raced, blind>>

Init ==
  /\ entries = [r \in Registries |-> "absent"] /\ lease = [r \in Registries |-> FALSE]
  /\ caller = [r \in Registries |-> "out"] /\ watch = [r \in Registries |-> "none"]
  /\ event = [r \in Registries |-> FALSE] /\ first = [r \in Registries |-> FALSE]
  /\ found = [r \in Registries |-> [t \in {"caller", "watch"} |-> {}]]
  /\ view = [r \in Registries |-> {}]
  /\ changes = 0 /\ failures = 0
  /\ raced = [r \in Registries |-> FALSE] /\ blind = [r \in Registries |-> FALSE]

Listed == {r \in Registries : entries[r] # "absent"}
Up(r) == caller[r] \notin {"out", "stopped"}
Fail == failures < MaxFailures /\ failures' = failures + 1

-----------------------------------------------------------------------------
(* The constructor: without a lease there is no keep-alive thread either. *)
Construct(r) ==
  /\ caller[r] = "out" /\ caller' = [caller EXCEPT ![r] = "idle"]
  /\ \/ lease' = [lease EXCEPT ![r] = TRUE] /\ UNCHANGED failures
     \/ Fail /\ UNCHANGED lease
  /\ UNCHANGED <<entries, watch, event, first, found, view, changes, raced, blind>>

\* etcd tells every watcher, and a change is missed by a listener without one that
\* has already listed the service (external).
Change(r, entry) ==
  /\ entries' = [entries EXCEPT ![r] = entry]
  /\ event' = [q \in Registries |-> event[q] \/ watch[q] \in {"waiting", "ls", "callback"}]
  /\ raced' = [q \in Registries |->
                 raced[q] \/ watch[q] = "starting" \/ (watch[q] = "none" /\ caller[q] \in {"callback", "watch"})]

\* Fault: the entry is put without the lease.
Lasting_Always(r) == "forever"

\* The lease of a put: none with leaseId_ 0.
Lasting(r) == IF lease[r] THEN "leased" ELSE "forever"

(* registerService() up to its notifyChange(); a failed put ends it. *)
RegisterService(r) ==
  /\ caller[r] = "idle" /\ changes < MaxChanges /\ changes' = changes + 1
  /\ \/ /\ Change(r, Lasting(r))
        /\ caller' = [caller EXCEPT ![r] = "ls"] /\ first' = [first EXCEPT ![r] = TRUE]
        /\ UNCHANGED failures
     \/ Fail /\ UNCHANGED <<entries, event, raced, caller, first>>
  /\ UNCHANGED <<lease, watch, found, view, blind>>

(* deregisterService() up to its notifyChange(); removing an unknown key fails too. *)
DeregisterService(r) ==
  /\ caller[r] = "idle" /\ entries[r] # "absent" /\ changes < MaxChanges /\ changes' = changes + 1
  /\ \/ /\ Change(r, "absent")
        /\ caller' = [caller EXCEPT ![r] = "ls"] /\ first' = [first EXCEPT ![r] = FALSE]
        /\ UNCHANGED failures
     \/ Fail /\ UNCHANGED <<entries, event, raced, caller, first>>
  /\ UNCHANGED <<lease, watch, found, view, blind>>

\* discover() in notifyChange(): a failed ls is an empty list.
Discover(r, thread, other) ==
  /\ \/ /\ found' = [found EXCEPT ![r][thread] = Listed] /\ blind' = [blind EXCEPT ![r] = FALSE]
        /\ UNCHANGED failures
     \/ Fail /\ found' = [found EXCEPT ![r][thread] = {}] /\ blind' = [blind EXCEPT ![r] = TRUE]
  /\ raced' = [raced EXCEPT ![r] = (other = "callback")]

CallerLs(r) ==
  /\ caller[r] = "ls" /\ caller' = [caller EXCEPT ![r] = "callback"]
  /\ Discover(r, "caller", watch[r])
  /\ UNCHANGED <<entries, lease, watch, event, first, view, changes>>

CallerCallback(r) ==
  /\ caller[r] = "callback" /\ view' = [view EXCEPT ![r] = found[r]["caller"]]
  /\ caller' = [caller EXCEPT ![r] = IF first[r] THEN "watch" ELSE "idle"]
  /\ UNCHANGED <<entries, lease, watch, event, first, found, changes, failures, raced, blind>>

(* startWatchLoop(): only the first registration starts a thread. *)
StartWatchLoop(r) ==
  /\ caller[r] = "watch" /\ caller' = [caller EXCEPT ![r] = "idle"]
  /\ watch' = [watch EXCEPT ![r] = IF @ = "none" THEN "starting" ELSE @]
  /\ UNCHANGED <<entries, lease, event, first, found, view, changes, failures, raced, blind>>

-----------------------------------------------------------------------------
(* The watch thread: the watcher is made, and then Wait() and notifyChange() alternate. *)
MakeWatcher(r) ==
  /\ watch[r] = "starting" /\ watch' = [watch EXCEPT ![r] = "waiting"]
  /\ UNCHANGED <<entries, lease, caller, event, first, found, view, changes, failures, raced, blind>>

\* Fault: a change during the notification is forgotten when the thread waits again.
WatchCallback_Forgets(r) ==
  /\ watch[r] = "callback" /\ watch' = [watch EXCEPT ![r] = "waiting"]
  /\ view' = [view EXCEPT ![r] = found[r]["watch"]] /\ event' = [event EXCEPT ![r] = FALSE]
  /\ UNCHANGED <<entries, lease, caller, first, found, changes, failures, raced, blind>>

\* Wait() returned true: nodes are listed and told next.
WaitReturns(r) ==
  /\ watch[r] = "waiting" /\ event[r] /\ watch' = [watch EXCEPT ![r] = "ls"]
  /\ event' = [event EXCEPT ![r] = FALSE]
  /\ UNCHANGED <<entries, lease, caller, first, found, view, changes, failures, raced, blind>>

\* Wait() returned false: nobody is told, and the loop goes round.  A watcher that is
\* over is not made again: Wait() returns false from now on.
WaitFails(r) ==
  /\ watch[r] = "waiting" /\ Fail
  /\ \/ /\ watch' = [watch EXCEPT ![r] = "ended"] /\ event' = [event EXCEPT ![r] = FALSE]
        /\ UNCHANGED blind
     \/ /\ event[r] /\ event' = [event EXCEPT ![r] = FALSE] /\ blind' = [blind EXCEPT ![r] = TRUE]
        /\ UNCHANGED watch
     \/ UNCHANGED <<watch, event, blind>>
  /\ UNCHANGED <<entries, lease, caller, first, found, view, changes, raced>>

WatchLs(r) ==
  /\ watch[r] = "ls" /\ watch' = [watch EXCEPT ![r] = "callback"]
  /\ Discover(r, "watch", caller[r])
  /\ UNCHANGED <<entries, lease, caller, event, first, view, changes>>

WatchCallback(r) ==
  /\ watch[r] = "callback" /\ watch' = [watch EXCEPT ![r] = "waiting"]
  /\ view' = [view EXCEPT ![r] = found[r]["watch"]]
  /\ UNCHANGED <<entries, lease, caller, event, first, found, changes, failures, raced, blind>>

-----------------------------------------------------------------------------
\* The server ends, and with it its threads; the keep-alive thread first in a destructor.
Stop(r) ==
  /\ Up(r) /\ caller' = [caller EXCEPT ![r] = "stopped"] /\ watch' = [watch EXCEPT ![r] = "none"]
  /\ UNCHANGED <<entries, lease, event, first, found, view, changes, failures, raced, blind>>

\* etcd drops the entries of a lease that is no longer kept alive (external).
Expire(r) ==
  /\ ~Up(r) /\ entries[r] = "leased" /\ Change(r, "absent")
  /\ UNCHANGED <<lease, caller, watch, first, found, view, changes, failures, blind>>

CallerStep(r) == CallerLs(r) \/ CallerCallback(r) \/ StartWatchLoop(r)
WatchStep(r) == MakeWatcher(r) \/ WaitReturns(r) \/ WatchLs(r) \/ WatchCallback(r)

Next ==
  \E r \in Registries :
    \/ Construct(r) \/ RegisterService(r) \/ DeregisterService(r)
    \/ CallerStep(r) \/ WatchStep(r) \/ WaitFails(r) \/ Stop(r) \/ Expire(r)

Fairness == \A r \in Registries : WF_vars(CallerStep(r)) /\ WF_vars(WatchStep(r)) /\ WF_vars(Expire(r))
Spec == Init /\ [][Next]_vars
FairSpec == Spec /\ Fairness

-----------------------------------------------------------------------------
TypeOK ==
  /\ entries \in [Registries -> {"absent", "leased", "forever"}]
  /\ caller \in [Registries -> {"out", "idle", "ls", "callback", "watch", "stopped"}]
  /\ watch \in [Registries -> {"none", "starting", "waiting", "ls", "callback", "ended"}]
  /\ view \in [Registries -> SUBSET Registries]

Gone(r) == caller[r] = "stopped" /\ lease[r]
Informed(q) == view[q] = Listed /\ \A r \in Registries : Gone(r) => r \notin view[q]
Watching(q) == Up(q) /\ watch[q] \notin {"none", "ended"}

\* The last list of the listener's server was taken undisturbed: the ls succeeded, the
\* other thread was not about to call the listener, no change fell before the watcher
\* since, and no Wait() that returned false took a change with it.
Undisturbed(q) == ~raced[q] /\ ~blind[q]

\* A listener with a working watcher is told in the end of every change, also of a server
\* that stopped without deregistering, if its last list was undisturbed.  One undisturbed
\* list makes good for every failure, race and missed change before it.
ListenersCatchUp ==
  <>[](\A q \in Registries : Watching(q) /\ Undisturbed(q) => Informed(q))

\* A listener with a working watcher, or about to have one, whose threads rest, with
\* nothing to return for in Wait(), knows the service as it is in etcd if its last list
\* was undisturbed: a change during a notification is not lost, and neither a failed
\* Wait() nor an earlier failure leaves the listener behind after that list.
QuietListenerIsCurrent ==
  \A q \in Registries :
    /\ caller[q] = "idle" /\ watch[q] \in {"starting", "waiting"} /\ ~event[q]
    /\ Undisturbed(q)
    => view[q] = Listed

\* etcd_registry.h:2 promises changes in real time through the watch.  registerService()
\* lists the service before the watcher exists, so a change in between is never told.
WatchMissesNothing == <>[](\A q \in Registries : Watching(q) /\ ~blind[q] => view[q] = Listed)
=============================================================================

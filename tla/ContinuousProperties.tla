------------------------- MODULE ContinuousProperties -------------------------
(***************************************************************************)
(* What must hold of a continuous deployment (ContinuousRuntime).          *)
(***************************************************************************)
EXTENDS ContinuousRuntime

\* Tasks that are not over.
Running(w) == {t \in tasks[w] : t.state # "done"}

\* The tasks, over all processes, whose emissions the fence would accept.
Writers(p) ==
  {x \in UNION {{<<w, t>> : t \in Running(w)} : w \in Workers} :
     x[2].part = p /\ Holds(p, x[1], x[2].token)}

\* One partition has at most one writer at any time, although stale tasks go
\* on running beside new ones, in other processes and in the same one.
OneWriter ==
  \A p \in Partitions : \A x, y \in Writers(p) : x = y

\* Once a supervisor has cancelled a task and forgotten it, which it never
\* waits for, no emission of that task is accepted again, even when the
\* partition comes back to the same worker.
DroppedAreFenced ==
  \A w \in Workers : \A t \in tasks[w] :
    t.state = "dropped" => ~Holds(t.part, w, t.token)

\* The status of a row says whether somebody owns it: no interleaving of
\* supervisors, discovery, reconcilers and drains leaves a partition "running"
\* without owner or "unassigned" with one.
StatusTellsOwner ==
  \A p \in Partitions :
    pstatus[p] \in {"assigned", "running"} <=> owner[p] # Nobody

\* A supervisor tracks at most one task of a partition: a tick that starts
\* partitions from rows it read earlier never starts one twice.
OneTrackedTask ==
  \A w \in Workers : \A s, t \in Tracked(w) : s.part = t.part => s = t

\* Everything the runtime does to the lease table is something the store
\* promises FencedLog for.
ImplementsLeaseStore == LeaseSpec

\* The partition is being worked on by its owner, with a lease.
Served(p) ==
  \E w \in Workers : \E t \in tasks[w] :
    t.part = p /\ t.state = "running" /\ MayEmit(p, w, t.token)

\* Every discovered partition of an active deployment is served again and
\* again, whatever was lost with a crashed worker, a late renewal, a drain or
\* a partition that had disappeared, as long as one server is alive.
ActivePartitionsServed ==
  \A p \in Partitions :
    (deployment = "active" /\ p \in discovered)
      ~> \/ Served(p)
         \/ deployment # "active"
         \/ p \notin discovered
         \/ \A w \in Servers : ~up[w]

\* Tasks of a partition that run on under a token that is no longer theirs.
Stale(w, p) == {t \in tasks[w] : /\ t.part = p /\ t.state = "running"
                                 /\ ~Holds(p, w, t.token)}

\* A task that has lost its partition, to a late renewal, a takeover or a
\* drain, does not run on for ever: its supervisor notices, and cancels it.
StaleTasksStop ==
  \A w \in Servers, p \in Partitions : Stale(w, p) # {} ~> Stale(w, p) = {}

\* Nothing of a stopped deployment runs on for ever, not even what a tick that
\* was under way has started since, or what a reconcile pass that was under
\* way has assigned.
StoppedIsQuiet ==
  deployment = "stopped"
    ~> \/ deployment # "stopped"
       \/ \A w \in Workers : tasks[w] = {}
=============================================================================

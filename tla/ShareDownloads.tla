--------------------------- MODULE ShareDownloads ---------------------------
(***************************************************************************)
(* Counting the downloads of a public share with a limit: direct downloads *)
(* and their rollback when the client goes away (services/share/content.rs),*)
(* and stream sessions whose many range requests count once                *)
(* (services/share/stream).                                                *)
(*                                                                         *)
(* The counter is a column changed by single statements.  What is still to *)
(* be taken back lives in memory: in a bounded channel, in an overflow map *)
(* beside it, in the batch the worker holds, and in tasks spawned once the *)
(* worker is gone.  With one share a map entry is a number.                *)
(***************************************************************************)
EXTENDS Naturals, FiniteSets

CONSTANTS
    Downloads,      \* direct downloads, each requested once
    Ranges,         \* range requests of one stream session
    MaxDownloads,   \* max_downloads of the share, 0 for none
    Capacity        \* capacity of the rollback channel

ASSUME ShareAssumption ==
    /\ IsFiniteSet(Downloads) /\ IsFiniteSet(Ranges)
    /\ MaxDownloads \in Nat /\ Capacity \in Nat \ {0}

VARIABLES
    dlCount,    \* download_count
    dl,         \* where each direct download is
    channel,    \* jobs in the channel
    overflow,   \* the overflow map
    batch,      \* what the worker has taken and not yet applied
    spawned,    \* fallback tasks
    server,     \* where the worker is in its loop
    stop,       \* the shutdown: no, asked for, seen by the worker
    lost,       \* rollbacks that nobody will make any more
    marker,     \* the session's count marker: none, pending, counted
    range       \* where each range request is

sdVars == <<dlCount, dl, channel, overflow, batch, spawned, server, stop, lost, marker, range>>
queueVars == <<channel, overflow, batch, spawned, server, stop>>

-----------------------------------------------------------------------------
\* Mutant: the limit is compared with one download too many.
MayCount_OneMore == MaxDownloads = 0 \/ dlCount <= MaxDownloads

\* increment_download_count: available_downloads_condition
MayCount == MaxDownloads = 0 \/ dlCount < MaxDownloads

\* decrement_download_count_by
TakenBack(n) == IF dlCount < n THEN 0 ELSE dlCount - n

\* download_share_resource_with_disposition: reserve_share_download_count, ...
Reserve(d) ==
    /\ dl[d] = "new"
    /\ IF MayCount
       THEN dlCount' = dlCount + 1 /\ dl' = [dl EXCEPT ![d] = "reserved"]
       ELSE UNCHANGED dlCount /\ dl' = [dl EXCEPT ![d] = "refused"]
    /\ UNCHANGED <<queueVars, lost, marker, range>>

\* ... the response is built and streams with the abort hook attached, ...
Respond(d) ==
    /\ dl[d] = "reserved"
    /\ dl' = [dl EXCEPT ![d] = "streaming"]
    /\ UNCHANGED <<dlCount, queueVars, lost, marker, range>>

\* ... or it is a redirect, which is an answer at once, ...
Redirect(d) ==
    /\ dl[d] = "reserved"
    /\ dl' = [dl EXCEPT ![d] = "done"]
    /\ UNCHANGED <<dlCount, queueVars, lost, marker, range>>

\* ... or building it failed and rollback_share_download_count takes the count back;
\* an error of that statement is only logged.
BuildFails(d) ==
    /\ dl[d] = "reserved"
    /\ dl' = [dl EXCEPT ![d] = "failed"]
    /\ \/ dlCount' = TakenBack(1) /\ UNCHANGED lost
       \/ lost' = lost + 1 /\ UNCHANGED dlCount
    /\ UNCHANGED <<queueVars, marker, range>>

\* The request is dropped before its response exists: there is no hook yet.
DropsEarly(d) ==
    /\ dl[d] = "reserved"
    /\ dl' = [dl EXCEPT ![d] = "failed"]
    /\ lost' = lost + 1
    /\ UNCHANGED <<dlCount, queueVars, marker, range>>

\* Mutant: the hook is still armed at the end of the stream.
Finish_HookArmed(d) ==
    /\ dl[d] = "streaming"
    /\ channel < Capacity
    /\ dl' = [dl EXCEPT ![d] = "done"]
    /\ channel' = channel + 1
    /\ UNCHANGED <<dlCount, overflow, batch, spawned, server, stop, lost, marker, range>>

\* AbortAwareStream: the stream is read to its end, ...
Finish(d) ==
    /\ dl[d] = "streaming"
    /\ dl' = [dl EXCEPT ![d] = "done"]
    /\ UNCHANGED <<dlCount, queueVars, lost, marker, range>>

\* ... or dropped before, and the hook enqueues a rollback: into the channel, or,
\* when its receiver is gone, as a task of its own.  When it is full the job is put
\* into the overflow map, a moment later.
Abort(d) ==
    /\ dl[d] = "streaming"
    /\ IF server = "gone"
       THEN /\ dl' = [dl EXCEPT ![d] = "aborted"]
            /\ spawned' = spawned + 1
            /\ UNCHANGED channel
       ELSE IF channel < Capacity
       THEN /\ dl' = [dl EXCEPT ![d] = "aborted"]
            /\ channel' = channel + 1
            /\ UNCHANGED spawned
       ELSE /\ dl' = [dl EXCEPT ![d] = "full"]
            /\ UNCHANGED <<channel, spawned>>
    /\ UNCHANGED <<dlCount, overflow, batch, server, stop, lost, marker, range>>

\* push_overflow; nobody reads the map of a worker that is gone.
PushOverflow(d) ==
    /\ dl[d] = "full"
    /\ dl' = [dl EXCEPT ![d] = "aborted"]
    /\ IF server = "gone" THEN lost' = lost + 1 /\ UNCHANGED overflow
                          ELSE overflow' = overflow + 1 /\ UNCHANGED lost
    /\ UNCHANGED <<dlCount, channel, batch, spawned, server, stop, marker, range>>

-----------------------------------------------------------------------------
\* run_share_download_rollback_worker at the head of its loop: it takes the overflow
\* map, with it whatever the channel holds; if there is nothing it sleeps or, once it
\* has seen the shutdown and the channel is empty too, leaves.
WorkerHead ==
    /\ server = "head"
    /\ IF overflow > 0 \/ (stop = "seen" /\ channel > 0)
       THEN /\ batch' = overflow + channel
            /\ channel' = 0 /\ overflow' = 0
            /\ server' = "apply"
       ELSE /\ server' = IF stop = "seen" THEN "leaving" ELSE "asleep"
            /\ UNCHANGED <<channel, overflow, batch>>
    /\ UNCHANGED <<dlCount, dl, spawned, stop, lost, marker, range>>

\* Mutant: the worker sleeps on although the shutdown was asked for.
WorkerWakes_JobsOnly ==
    /\ server = "asleep"
    /\ channel > 0
    /\ batch' = channel + overflow /\ channel' = 0 /\ overflow' = 0
    /\ server' = "apply"
    /\ UNCHANGED <<dlCount, dl, spawned, stop, lost, marker, range>>

\* Asleep in select!: the shutdown wakes it first, else a job in the channel does; the
\* overflow map does not.
WorkerWakes ==
    /\ server = "asleep"
    /\ \/ /\ stop = "asked"
          /\ stop' = "seen" /\ server' = "head"
          /\ UNCHANGED <<channel, overflow, batch>>
       \/ /\ stop # "asked" /\ channel > 0
          /\ batch' = channel + overflow /\ channel' = 0 /\ overflow' = 0
          /\ server' = "apply"
          /\ UNCHANGED stop
    /\ UNCHANGED <<dlCount, dl, spawned, lost, marker, range>>

\* apply_download_count_rollback; a failing statement is logged and not repeated.
WorkerApplies ==
    /\ server = "apply"
    /\ \/ dlCount' = TakenBack(batch) /\ UNCHANGED lost
       \/ lost' = lost + batch /\ UNCHANGED dlCount
    /\ batch' = 0
    /\ server' = "head"
    /\ UNCHANGED <<dl, channel, overflow, spawned, stop, marker, range>>

\* The worker and with it the receiver are dropped; what came after its last look into
\* the channel goes with them.
WorkerGone ==
    /\ server = "leaving"
    /\ server' = "gone"
    /\ lost' = lost + channel + overflow
    /\ channel' = 0 /\ overflow' = 0
    /\ UNCHANGED <<dlCount, dl, batch, spawned, stop, marker, range>>

\* The task of spawn_fallback.
SpawnedApplies ==
    /\ spawned > 0
    /\ spawned' = spawned - 1
    /\ \/ dlCount' = TakenBack(1) /\ UNCHANGED lost
       \/ lost' = lost + 1 /\ UNCHANGED dlCount
    /\ UNCHANGED <<dl, channel, overflow, batch, server, stop, marker, range>>

Shutdown ==
    /\ stop = "no"
    /\ stop' = "asked"
    /\ UNCHANGED <<dlCount, dl, channel, overflow, batch, spawned, server, lost, marker, range>>

-----------------------------------------------------------------------------
\* Mutant: a pending marker is overwritten instead of waited for.
RangeOpens_Anyway(r) ==
    /\ range[r] = "new"
    /\ IF marker = "counted"
       THEN range' = [range EXCEPT ![r] = "free"] /\ UNCHANGED marker
       ELSE range' = [range EXCEPT ![r] = "reserved"] /\ marker' = "pending"
    /\ UNCHANGED <<dlCount, dl, queueVars, lost>>

\* stream_file, ensure_counted_once: a counted session is served free, a pending one is
\* waited for and given up in the end, and the first request reserves the marker.
RangeOpens(r) ==
    /\ range[r] = "new"
    /\ range' = [range EXCEPT ![r] = IF marker = "counted" THEN "free"
                                       ELSE IF marker = "pending" THEN "refused"
                                       ELSE "reserved"]
    /\ marker' = IF marker = "none" THEN "pending" ELSE marker
    /\ UNCHANGED <<dlCount, dl, queueVars, lost>>

\* increment_download_count; without success the marker is released.
RangeCounts(r) ==
    /\ range[r] = "reserved"
    /\ IF MayCount
       THEN /\ dlCount' = dlCount + 1
            /\ range' = [range EXCEPT ![r] = "counting"]
            /\ UNCHANGED marker
       ELSE /\ range' = [range EXCEPT ![r] = "refused"]
            /\ marker' = "none"
            /\ UNCHANGED dlCount
    /\ UNCHANGED <<dl, queueVars, lost>>

\* mark_counted
RangeMarks(r) ==
    /\ range[r] = "counting"
    /\ range' = [range EXCEPT ![r] = "counted"]
    /\ marker' = "counted"
    /\ UNCHANGED <<dlCount, dl, queueVars, lost>>

\* build_stream_outcome_with_disposition_and_range succeeds, ...
RangeServes(r) ==
    /\ range[r] \in {"counted", "free"}
    /\ range' = [range EXCEPT ![r] = IF @ = "counted" THEN "paid" ELSE "served"]
    /\ UNCHANGED <<dlCount, dl, queueVars, lost, marker>>

\* ... or fails: the request that counted releases the marker and then takes its count
\* back.
RangeFails(r) ==
    /\ range[r] \in {"counted", "free"}
    /\ range' = [range EXCEPT ![r] = IF @ = "counted" THEN "undo" ELSE "refused"]
    /\ marker' = IF range[r] = "counted" THEN "none" ELSE marker
    /\ UNCHANGED <<dlCount, dl, queueVars, lost>>

RangeUndoes(r) ==
    /\ range[r] = "undo"
    /\ range' = [range EXCEPT ![r] = "refused"]
    /\ \/ dlCount' = TakenBack(1) /\ UNCHANGED lost
       \/ lost' = lost + 1 /\ UNCHANGED dlCount
    /\ UNCHANGED <<dl, queueVars, marker>>

\* The request is dropped where it waits: nothing is undone.  A marker it left pending
\* blocks the session until it expires; once the session is counted it stays so.
RangeDrops(r) ==
    /\ range[r] \in {"reserved", "counting", "counted", "undo"}
    /\ range' = [range EXCEPT ![r] = IF @ = "counted" THEN "paid" ELSE "refused"]
    /\ lost' = IF range[r] \in {"counting", "undo"} THEN lost + 1 ELSE lost
    /\ UNCHANGED <<dlCount, dl, queueVars, marker>>

-----------------------------------------------------------------------------
ShareInit ==
    /\ dlCount = 0
    /\ dl = [d \in Downloads |-> "new"]
    /\ channel = 0 /\ overflow = 0 /\ batch = 0 /\ spawned = 0
    /\ server = "head" /\ stop = "no"
    /\ lost = 0
    /\ marker = "none"
    /\ range = [r \in Ranges |-> "new"]

Rollback == WorkerHead \/ WorkerWakes \/ WorkerApplies \/ WorkerGone

ShareNext ==
    \/ Rollback \/ SpawnedApplies \/ Shutdown
    \/ \E d \in Downloads :
          \/ Reserve(d) \/ Respond(d) \/ Redirect(d) \/ BuildFails(d) \/ DropsEarly(d)
          \/ Finish(d) \/ Abort(d) \/ PushOverflow(d)
    \/ \E r \in Ranges :
          \/ RangeOpens(r) \/ RangeCounts(r) \/ RangeMarks(r) \/ RangeServes(r)
          \/ RangeFails(r) \/ RangeUndoes(r) \/ RangeDrops(r)

ShareSpec == ShareInit /\ [][ShareNext]_sdVars

\* The worker is a task of the runtime, and push_overflow directly follows try_send.
ShareFair ==
    /\ WF_sdVars(Rollback)
    /\ \A d \in Downloads : WF_sdVars(PushOverflow(d))

ShareFairSpec == ShareSpec /\ ShareFair

-----------------------------------------------------------------------------
Active == {d \in Downloads : dl[d] \in {"reserved", "streaming", "done", "full"}}
Paying == {r \in Ranges : range[r] \in {"counting", "counted", "paid"}}
Undoing == {r \in Ranges : range[r] = "undo"}

\* download_count is exactly what was and is being downloaded, plus what is still to be
\* taken back, plus what was given up on: no rollback is applied twice, none is taken
\* from a download that went through, and the floor at zero never hides it.
CountBalanced ==
    dlCount = Cardinality(Active) + Cardinality(Paying) + Cardinality(Undoing)
              + channel + overflow + batch + spawned + lost

\* No order of reservations, aborts and rollbacks hands out more copies than
\* max_downloads.
DeliveredWithinLimit ==
    MaxDownloads > 0 =>
        Cardinality({d \in Downloads : dl[d] \in {"streaming", "done"}})
        + Cardinality({r \in Ranges : range[r] = "paid"}) <= MaxDownloads

\* However many range requests of a stream session run at once, and whichever of them
\* fail, one of them at most has it counted.
SessionCountedOnce == Cardinality(Paying) <= 1

\* The worker takes what is in the channel, and leaves once it is asked to.
QueueServed ==
    /\ channel > 0 ~> channel = 0
    /\ stop = "asked" ~> server = "gone"
=============================================================================

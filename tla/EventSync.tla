----------------------------- MODULE EventSync -----------------------------
(***************************************************************************)
(* The app's indexer, core/stellar/src/indexer.rs, driven by               *)
(* events_listener (platforms/web/src/events.rs): it fetches the events of *)
(* the contracts from the wallet's RPC, or from a bootnode when the RPC no *)
(* longer keeps the ledgers it needs, until the bootnode hands it off.     *)
(* Events and progress are stored in two calls; the page can be closed     *)
(* between any two steps and opened again.                                 *)
(***************************************************************************)
EXTENDS Bootnode

CONSTANT
    Faults         \* what may go wrong in a run: the app is opened again, the
                   \* bootnode started again, the upstream or a probe fails

VARIABLES
    saved,         \* raw_contract_events
    meta,          \* indexing_metadata, the same for all contracts; or None
    step,          \* the listener's next step
    source,        \* the server it fetches from
    answer         \* what it was answered last

clientVars == <<saved, meta, step, source, answer>>
vars       == <<tip, events, bnVars, clientVars>>

Meta == [cursor : Cursors \cup {None}, lastIndexed : 1..MaxLedger,
         fullyIndexed : 0..MaxLedger]

ASSUME SyncAssumption ==
    /\ Faults \subseteq {"reload", "restart", "upstream", "probe"}
    /\ None \notin Pages \cup Meta

\* `from` is the ledger a handoff names.
Handoffs == [from : 0..MaxLedger]
Stops    == [why : {"cache miss", "sync gap", "outage"}]

TypeOK ==
    /\ LedgersTypeOK
    /\ BootnodeTypeOK
    /\ saved \subseteq events
    /\ meta \in Meta \cup {None}
    /\ step \in {"probe", "bootnodeProbe", "resume", "fetch", "save", "progress",
                 "missed", "bootnodeMissed", "stopped"}
    /\ source \in {"wallet", "bootnode"}
    /\ answer \in Pages \cup Handoffs \cup Stops \cup {None}

Init ==
    /\ LedgersInit
    /\ BootnodeInit
    /\ saved = {}
    /\ meta = None
    /\ step = "probe"
    /\ source = "wallet"
    /\ answer = None

-----------------------------------------------------------------------------
(* What the indexer asks for: the stored cursor, or else the last indexed  *)
(* ledger again, or else the deployment ledger.                            *)

ResumeLedgerMutant == IF meta = None THEN 1 ELSE meta.lastIndexed + 1
ResumeLedger == IF meta = None THEN 1 ELSE meta.lastIndexed
CursorMutant == None
Cursor == IF meta = None THEN None ELSE meta.cursor
Request == [cursor |-> Cursor, ledger |-> ResumeLedger]
Probe == [cursor |-> None, ledger |-> ResumeLedger]

\* All events up to this cursor are taken to be stored.
Passed == IF Cursor # None THEN Cursor ELSE LastId(ResumeLedger - 1)

WithoutCursor == IF meta = None THEN None ELSE [meta EXCEPT !.cursor = None]

Goes(to, with) == step' = to /\ answer' = with
Stop(why)      == Goes("stopped", [why |-> why])

-----------------------------------------------------------------------------
(* Indexer::init on the wallet's RPC, when the app opens and after a       *)
(* handoff.  On a sync gap the cursors are cleared and the bootnode tried. *)

ProbeWallet ==
    /\ step = "probe"
    /\ IF Kept(ResumeLedger)
       THEN Goes("fetch", None) /\ UNCHANGED meta
       ELSE Goes("bootnodeProbe", None) /\ meta' = WithoutCursor
    /\ source' = "wallet"
    /\ UNCHANGED saved

ResumeOnWallet ==
    /\ step = "resume"
    /\ IF Kept(ResumeLedger) THEN Goes("fetch", None)
                             ELSE Stop("sync gap")
    /\ source' = "wallet"
    /\ UNCHANGED <<saved, meta>>

\* Any other error of a probe ends the listener.
ProbeFails ==
    /\ "probe" \in Faults
    /\ step \in {"probe", "bootnodeProbe", "resume"}
    /\ Stop("outage")
    /\ UNCHANGED <<saved, meta, source>>

-----------------------------------------------------------------------------
(* The bootnode answers.  A cached page or a handoff by the window comes   *)
(* from one reading of its storage; after a miss, in_sync is read later.   *)

\* The listener takes a handoff: the cursors are cleared once more.
TakeHandoff(from) ==
    /\ Goes("resume", [from |-> from])
    /\ meta' = WithoutCursor

\* Indexer::init on the bootnode only looks whether there is an answer.
ProbeBootnode ==
    /\ step = "bootnodeProbe"
    /\ \/ HandsOff(Probe) /\ TakeHandoff(Cutoff) /\ UNCHANGED source
       \/ /\ ~HandsOff(Probe) /\ Cached(Probe)
          /\ Goes("fetch", None)
          /\ source' = "bootnode"
          /\ UNCHANGED meta
       \/ /\ ~HandsOff(Probe) /\ ~Cached(Probe) /\ bnTip > 0
          /\ Goes("bootnodeMissed", [from |-> Cutoff])
          /\ UNCHANGED <<meta, source>>
       \/ /\ ~HandsOff(Probe) /\ ~Cached(Probe) /\ bnTip = 0
          /\ Stop("cache miss")
          /\ UNCHANGED <<meta, source>>
    /\ UNCHANGED saved

\* cache_miss_or_handoff.  -32004 ends the listener during the probe.
BootnodeProbeMissed ==
    /\ step = "bootnodeMissed"
    /\ \/ inSync /\ TakeHandoff(answer.from)
       \/ ~inSync /\ Stop("cache miss") /\ UNCHANGED meta
    /\ UNCHANGED <<saved, source>>

FetchFromBootnode ==
    /\ step = "fetch"
    /\ source = "bootnode"
    /\ \/ HandsOff(Request) /\ TakeHandoff(Cutoff)
       \/ /\ ~HandsOff(Request) /\ Cached(Request)
          /\ Goes("save", pages[KeyOf(Request)])
          /\ UNCHANGED meta
       \/ /\ ~HandsOff(Request) /\ ~Cached(Request) /\ bnTip > 0
          /\ Goes("missed", [from |-> Cutoff])
          /\ UNCHANGED meta
    /\ UNCHANGED <<saved, source>>

\* -32004 fails the round; the next one asks again.
FetchMissed ==
    /\ step = "missed"
    /\ \/ inSync /\ TakeHandoff(answer.from)
       \/ ~inSync /\ Goes("fetch", None) /\ UNCHANGED meta
    /\ UNCHANGED <<saved, source>>

-----------------------------------------------------------------------------
(* Indexer::fetch_contract_events, a page at a time.                       *)

\* An error of the wallet's RPC, a cursor it no longer keeps included, fails
\* the round; the next one asks the same.
FetchFromWallet ==
    /\ step = "fetch"
    /\ source = "wallet"
    /\ Kept(IF Cursor = None THEN ResumeLedger ELSE LedgerAt(Cursor))
    /\ Goes("save", PageAfter(Passed))
    /\ UNCHANGED <<saved, meta, source>>

\* save_events_batch; an id that is there already is left alone.
SaveEvents ==
    /\ step = "save"
    /\ saved' = saved \cup answer.ids
    /\ Goes("progress", answer)
    /\ UNCHANGED <<meta, source>>

ProgressLedger(page) == IF page.ids = {} THEN page.latest ELSE LastLedger(page)

\* fully_indexed is told of an empty page only.
FullyIndexedMutant(page) == ProgressLedger(page)
FullyIndexed(page) ==
    CASE page.ids = {} -> page.latest
      [] page.ids # {} /\ meta = None -> 0
      [] OTHER -> meta.fullyIndexed

\* save_sync_progress
SaveProgress ==
    /\ step = "progress"
    /\ meta' = [cursor       |-> answer.end,
                lastIndexed  |-> ProgressLedger(answer),
                fullyIndexed |-> FullyIndexed(answer)]
    /\ Goes("fetch", None)
    /\ UNCHANGED <<saved, source>>

\* The app is closed and opened again; what is stored stays.
Reload ==
    /\ "reload" \in Faults
    /\ step # "probe"
    /\ Goes("probe", None)
    /\ source' = "wallet"
    /\ UNCHANGED <<saved, meta>>

-----------------------------------------------------------------------------
Listener ==
    \/ ProbeWallet \/ ResumeOnWallet
    \/ ProbeBootnode \/ BootnodeProbeMissed
    \/ FetchFromBootnode \/ FetchMissed \/ FetchFromWallet
    \/ SaveEvents \/ SaveProgress

Next ==
    \/ CloseLedger /\ UNCHANGED <<bnVars, clientVars>>
    \/ /\ \/ BnRound
          \/ "upstream" \in Faults /\ BnFetchFails
          \/ "restart" \in Faults /\ BnRestart
       /\ UNCHANGED <<tip, events, clientVars>>
    \/ /\ Listener \/ ProbeFails \/ Reload
       /\ UNCHANGED <<tip, events, bnVars>>

Spec == Init /\ [][Next]_vars

\* Both loops run for ever and sleep between rounds; an upstream that fails
\* now and then answers now and then.
Fairness ==
    /\ WF_vars(BnRound /\ UNCHANGED <<tip, events, clientVars>>)
    /\ SF_vars(BnFetch /\ UNCHANGED <<tip, events, clientVars>>)
    /\ WF_vars(Listener /\ UNCHANGED <<tip, events, bnVars>>)

LiveSpec == Spec /\ Fairness

-----------------------------------------------------------------------------
(* Properties.                                                             *)

\* Every page the bootnode has stored is exactly the events after the cursor
\* it is stored under, up to its own cursor, whatever ledgers closed and
\* wherever the bootnode was killed between fetching and storing.
CacheFaithful ==
    \A key \in DOMAIN pages :
        /\ pages[key].ids # {}
        /\ pages[key].ids = Between(CursorOf(key), pages[key].end)

\* The app never passes over an event: whichever server it follows, however
\* often cursors are cleared or the app is closed between storing events and
\* storing progress, every event before the point it goes on from is stored.
NoEventMissed == \A id \in events : id <= Passed => id \in saved

\* A ledger reported as fully indexed has all its events stored, and so has
\* every ledger before it.
FullyIndexedIsTrue ==
    meta # None => \A id \in events : LedgerOf(id) <= meta.fullyIndexed => id \in saved

\* What the two progress marks say has been seen is stored: the app neither
\* passes over an event nor reports a ledger it lacks events of.
NothingMissed == NoEventMissed /\ FullyIndexedIsTrue

\* Progress is never lost: no answer of any server takes the app back.
NoStepBack ==
    [][meta # None =>
        /\ meta'.lastIndexed >= meta.lastIndexed
        /\ meta'.fullyIndexed >= meta.fullyIndexed]_vars

\* While the RPC keeps what the app needs, every event is stored in the end.
EventuallySynced == <>[](saved = events)

\* The bootnode catches up with its upstream: every event is in a stored page
\* and it says that it is in sync.
BootnodeCatchesUp ==
    <>[](inSync /\ StoredIds = events)

\* Both catch up, the app's listener and the bootnode's indexer, however many
\* pages a round ends after and however often the upstream fails.
BothCatchUp == EventuallySynced /\ BootnodeCatchesUp

\* "historical range complete, continue on the wallet RPC"
\* (platforms/web/src/events.rs:7): a client that is handed off has every event
\* the bootnode has stored of the ledgers before the one the handoff names.
HandoffComplete ==
    step = "resume" =>
        \A id \in StoredIds : LedgerOf(id) < answer.from => id \in saved
=============================================================================

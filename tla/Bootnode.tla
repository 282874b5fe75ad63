------------------------------ MODULE Bootnode ------------------------------
(***************************************************************************)
(* The bootnode, tools/bootnode: an indexer that follows an upstream RPC   *)
(* and stores the pages it returns, and a handler of getEvents that serves *)
(* these pages or hands the client off to its own RPC.  The indexer is     *)
(* split at its storage calls: the process can be killed between any two,  *)
(* and handlers run between them.                                          *)
(***************************************************************************)
EXTENDS Ledgers

CONSTANTS
    Redirect,      \* Config::cutoff_ledgers
    Start,         \* the key of the page asked for by startLedger
    None

ASSUME BootnodeAssumption ==
    /\ Redirect \in Nat
    /\ Start # None
    /\ {Start, None} \cap Cursors = {}

VARIABLES
    bnTip,         \* ledger_tip, the tip the last round saw; 0 before it
    bnCursor,      \* indexer_state.last_cursor, None at first
    inSync,        \* indexer_state.in_sync
    pages,         \* get_events_pages: by cursor_in, or Start
    bnStep,        \* the indexer's next step
    bnAt,          \* the cursor of the round
    bnPage         \* the page the round has fetched

stored   == <<bnTip, bnCursor, inSync, pages>>
round    == <<bnStep, bnAt, bnPage>>
bnVars   == <<stored, round>>

Keys == Cursors \cup {Start}

\* The cursor a key stands for: startLedger is the deployment ledger.
CursorOf(key) == IF key = Start THEN 0 ELSE key

BootnodeTypeOK ==
    /\ bnTip \in 0..MaxLedger
    /\ bnCursor \in Cursors \cup {None}
    /\ inSync \in BOOLEAN
    /\ DOMAIN pages \subseteq Keys
    /\ \A key \in DOMAIN pages : pages[key] \in Pages
    /\ bnStep \in {"idle", "fetch", "unsync", "insert", "advance", "caughtUp", "sync"}
    /\ bnAt \in Keys
    /\ bnPage \in Pages \cup {None}

BootnodeInit ==
    /\ bnTip = 0
    /\ bnCursor = None
    /\ inSync = FALSE
    /\ pages = [key \in {} |-> None]
    /\ bnStep = "idle"
    /\ bnAt = Start
    /\ bnPage = None

-----------------------------------------------------------------------------
(* The indexer, Indexer::run_round.                                        *)

BnGoTo(to) == bnStep' = to

\* The end of a round, successful or not.
BnEndRound == bnStep' = "idle" /\ bnAt' = Start /\ bnPage' = None

RoundStartMutant == Start
RoundStart == IF bnCursor = None THEN Start ELSE bnCursor

BnStartRound ==
    /\ bnStep = "idle"
    /\ bnTip' = tip
    /\ bnAt' = RoundStart
    /\ BnGoTo("fetch")
    /\ UNCHANGED <<bnCursor, inSync, pages, bnPage>>

BnFetch ==
    /\ bnStep = "fetch"
    /\ Kept(LedgerAt(CursorOf(bnAt)))
    /\ bnPage' = PageAfter(CursorOf(bnAt))
    /\ BnGoTo(IF bnPage'.ids = {} THEN "caughtUp" ELSE "unsync")
    /\ UNCHANGED <<stored, bnAt>>

\* The upstream refuses or cannot be reached: the round fails.
BnFetchFails ==
    /\ bnStep = "fetch"
    /\ BnEndRound
    /\ UNCHANGED stored

BnUnsync ==
    /\ bnStep = "unsync"
    /\ inSync' = FALSE
    /\ BnGoTo("insert")
    /\ UNCHANGED <<bnTip, bnCursor, pages, bnAt, bnPage>>

\* insert_get_events_page: the first page stored for a key stays.
WithPageMutant(key, page) ==
    [k \in DOMAIN pages \cup {page.end} |-> IF k = page.end THEN page ELSE pages[k]]
WithPage(key, page) ==
    IF key \in DOMAIN pages THEN pages
    ELSE [k \in DOMAIN pages \cup {key} |-> IF k = key THEN page ELSE pages[k]]

BnInsert ==
    /\ bnStep = "insert"
    /\ pages' = WithPage(bnAt, bnPage)
    /\ BnGoTo("advance")
    /\ UNCHANGED <<bnTip, bnCursor, inSync, bnAt, bnPage>>

\* update_cursor; the round goes on, or ends after max_pages_per_round.
BnAdvance ==
    /\ bnStep = "advance"
    /\ bnCursor' = bnPage.end
    /\ \/ BnGoTo("fetch") /\ bnAt' = bnPage.end /\ bnPage' = None
       \/ BnEndRound
    /\ UNCHANGED <<bnTip, inSync, pages>>

\* mark_caught_up
BnCaughtUp ==
    /\ bnStep = "caughtUp"
    /\ bnCursor' = bnPage.end
    /\ BnGoTo("sync")
    /\ UNCHANGED <<bnTip, inSync, pages, bnAt, bnPage>>

BnSync ==
    /\ bnStep = "sync"
    /\ inSync' = TRUE
    /\ BnEndRound
    /\ UNCHANGED <<bnTip, bnCursor, pages>>

BnRound ==
    \/ BnStartRound \/ BnFetch \/ BnUnsync \/ BnInsert
    \/ BnAdvance \/ BnCaughtUp \/ BnSync

\* The process dies and is started again; the tip is stored and read again.
BnRestart ==
    /\ bnStep # "idle"
    /\ BnEndRound
    /\ UNCHANGED stored

-----------------------------------------------------------------------------
(* The handler, BootnodeRpc::get_events_handler.  A request is a key or    *)
(* another start ledger; it reads the storage several times.               *)

Cutoff == IF bnTip > Redirect THEN bnTip - Redirect ELSE 0

\* The ledger of the last event of a page.
LastLedger(page) ==
    LedgerOf(CHOOSE id \in page.ids : \A other \in page.ids : other <= id)

\* lookup_last_event_ledger_for_cursor
LastEventLedgers(cursor) ==
    {LastLedger(pages[key]) : key \in {k \in DOMAIN pages : pages[k].end = cursor}}

InWindow(ledger) == bnTip > 0 /\ ledger >= Cutoff

\* A request by cursor is in the window when the last event before it is.
HandsOff(request) ==
    CASE request.cursor # None ->
            \E ledger \in LastEventLedgers(request.cursor) : InWindow(ledger)
      [] OTHER -> InWindow(request.ledger)

KeyOfMutant(request) == IF request.cursor # None THEN request.cursor ELSE Start
KeyOf(request) ==
    CASE request.cursor # None -> request.cursor
      [] request.cursor = None /\ request.ledger = 1 -> Start
      [] OTHER -> None

StoredIds == UNION {pages[key].ids : key \in DOMAIN pages}

Cached(request) == KeyOf(request) \in DOMAIN pages
=============================================================================

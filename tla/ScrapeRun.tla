----------------------------- MODULE ScrapeRun -----------------------------
(***************************************************************************)
(* run_now(): one pass over an owner's sources (kerdoos/core/app/services, *)
(* core/orchestrator.py, core/verdict.py). Every source is meant to end in *)
(* a record whatever goes wrong with it. Only the generator that hands out *)
(* the sources is outside the guard: a source whose site the registry was  *)
(* read too early to know ends the run with a KeyError.                    *)
(***************************************************************************)
EXTENDS PageFetch, Parsers

CONSTANT ParsersOf     \* the parsers that a site's row may name when it is read

ASSUME ScrapeAssumption == ParsersOf \in [Site -> SUBSET Kind]

VARIABLES
    grounds,    \* the definitive verdicts that the page it read supports
    verdict,    \* the record scrape_one has built for the source under way
    records,    \* the records the run reports, "none" where there is none
    stored      \* the statuses appended to the scrapes table by this run

Status == {"ok", "unavailable", "indeterminate"}

reading == <<rows, seen>>

StartLoop ==
    /\ at = "loaded"
    /\ todo' = seen.sources
    /\ at' = "next"
    /\ UNCHANGED <<reading, fetching, grounds, verdict, records, stored>>

\* The loop goes on with the next source, this one's record being r.
Report(r) ==
    /\ records' = [records EXCEPT ![Cur] = r]
    /\ todo' = todo \ {Cur}
    /\ verdict' = "none" /\ grounds' = {}
    /\ at' = "next"

-----------------------------------------------------------------------------
(* The loop                                                                 *)

Finish ==
    /\ at = "next" /\ todo = {}
    /\ at' = "done"
    /\ UNCHANGED <<reading, todo, fetching, grounds, verdict, records, stored>>

Abort ==
    /\ at = "next" /\ todo # {}
    /\ Dangling(Cur)
    /\ at' = "aborted"
    /\ UNCHANGED <<reading, todo, fetching, grounds, verdict, records, stored>>

\* A tier this image does not have: no record at all.
SkipSource ==
    /\ at = "next" /\ todo # {}
    /\ ~Dangling(Cur)
    /\ ~TierAvailable(CurTier)
    /\ Report("none")
    /\ UNCHANGED <<reading, fetching, stored>>

TakeSource ==
    /\ at = "next" /\ todo # {}
    /\ ~Dangling(Cur)
    /\ TierAvailable(CurTier)
    /\ at' = "select"
    /\ UNCHANGED <<reading, todo, fetching, grounds, verdict, records, stored>>

SelectFetcher ==
    /\ Select
    /\ UNCHANGED <<reading, todo, grounds, verdict, records, stored>>

\* The guard around a source: a tier probe that raises, a fetcher that
\* cannot be built. The record is reported and not stored.
GuardCatches ==
    /\ (at = "next" /\ todo # {} /\ ~Dangling(Cur)) \/ FactoryRaises
    /\ Report("indeterminate")
    /\ UNCHANGED <<reading, fetching, stored>>

\* The fetcher is built and cached, the site's parser is unknown.
ParserUnknown ==
    /\ at = "select"
    /\ cache' = cache \cup {FetcherKey}
    /\ Report("indeterminate")
    /\ UNCHANGED <<reading, locals, stored>>

-----------------------------------------------------------------------------
(* scrape_one                                                               *)

Decide(v) ==
    /\ verdict' = v
    /\ EndFetch
    /\ at' = "store"
    /\ UNCHANGED <<reading, todo, cache, records, stored>>

Redirected ==
    /\ FollowRedirect
    /\ UNCHANGED <<reading, todo, grounds, verdict, records, stored>>

FetchFails == FetchRaises /\ Decide("indeterminate") /\ UNCHANGED grounds

Fetched ==
    /\ at = "fetch"
    /\ \E kind \in PageKinds(CurTier) : GotPage(kind)
    /\ UNCHANGED <<reading, todo, grounds, verdict, records, stored>>

TryAgain ==
    /\ Retry
    /\ UNCHANGED <<reading, todo, grounds, verdict, records, stored>>

StillChallenged ==
    /\ at = "fetched"
    /\ Challenged(page) /\ tries >= Retries
    /\ Decide("indeterminate")
    /\ UNCHANGED grounds

\* The parser reads the page; a ParseError or any other exception on the way
\* leaves the source indeterminate. Only a page that is the shop's own, whole,
\* supports anything.
Parsed ==
    /\ at = "fetched" /\ ~Challenged(page)
    /\ \E kind \in ParsersOf[SiteOf[Cur]] : \E got \in Readings[kind] :
         /\ Decide(got.verdict)
         /\ grounds' = IF page = "whole" THEN got.grounds ELSE {}

ParserRaises ==
    /\ at = "fetched" /\ ~Challenged(page)
    /\ Decide("indeterminate")
    /\ UNCHANGED grounds

-----------------------------------------------------------------------------
(* scrape_and_record                                                        *)

StoreRecord ==
    /\ at = "store"
    /\ stored' = [stored EXCEPT ![Cur] = verdict]
    /\ Report(verdict)
    /\ UNCHANGED <<reading, fetching>>

\* The guard turns a record that could not be stored into an indeterminate one.
StoreFails ==
    /\ at = "store"
    /\ Report("indeterminate")
    /\ UNCHANGED <<reading, fetching, stored>>

RunStep ==
    \/ StartLoop \/ Finish \/ Abort \/ SkipSource \/ TakeSource
    \/ SelectFetcher \/ GuardCatches \/ ParserUnknown
    \/ Redirected \/ FetchFails \/ Fetched \/ TryAgain \/ StillChallenged
    \/ Parsed \/ ParserRaises
    \/ StoreRecord \/ StoreFails
=============================================================================

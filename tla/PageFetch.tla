----------------------------- MODULE PageFetch -----------------------------
(***************************************************************************)
(* One source's page: the router hands out the fetcher of the site's tier  *)
(* (autolycos/router.py), the fetcher follows redirects and validates      *)
(* every target before it dials (adapters/http.py, adapters/tls.py,        *)
(* safety.py), and the same fetcher is tried again while the page looks    *)
(* like a challenge (challenge.py, kerdoos/core/retry.py).                 *)
(*                                                                         *)
(* What a browser tier does between its target check and its page is the   *)
(* subject of FetchCycle and its tiers; here such a fetch is one step.     *)
(***************************************************************************)
EXTENDS RegistryLoad

CONSTANTS
    TierOf,         \* the fetcher name in a site's row
    DomainsOf,      \* the sub-resource domains of a site
    Installed,      \* tiers whose dependency and binary this image has
    Retries,        \* DEFAULT_RETRIES
    MaxRedirects    \* MAX_REDIRECTS

Tier == {"http", "tls", "browser", "uc", "camoufox"}

\* A row may name a tier that nobody knows: only add_site checks the name.
ASSUME PageFetchAssumption ==
    /\ DOMAIN TierOf = Site /\ DOMAIN DomainsOf = Site
    /\ "http" \in Installed /\ Installed \subseteq Tier
    /\ Retries \in Nat /\ MaxRedirects \in Nat

VARIABLES
    todo,       \* the sources the loop has not reached
    cache,      \* keys of the fetchers the router has built
    pinned,     \* the target of the fetch under way is validated
    hops,       \* redirects it has followed
    tries,      \* fetches of this source that came back challenged
    page        \* what the last fetch returned

fetching == <<cache, pinned, hops, tries, page>>
locals == <<pinned, hops, tries, page>>

\* A URL as safety.py sees it: whether scheme and host are allowed, and the
\* kinds of address its host resolves to this time.
Target == [allowed : BOOLEAN, answer : SUBSET {"public", "private"}]

\* validate_target: a host that mixes public and private answers is refused.
ValidTarget(t) == t.allowed /\ t.answer = {"public"}

\* A fetch starts and a redirect is followed with a new target, resolved anew.
Validate == pinned' \in {ValidTarget(t) : t \in Target}

\* The locals of a source's fetch are gone when it ends.
EndFetch == pinned' = FALSE /\ hops' = 0 /\ tries' = 0 /\ page' = "none"

Cur == Min(todo)
CurTier == TierOf[SiteOf[Cur]]

-----------------------------------------------------------------------------
(* The router                                                               *)

\* An unknown tier is unavailable, whatever is installed.
TierAvailable(tier) == tier \in Installed

FetcherKey == <<CurTier, DomainsOf[SiteOf[Cur]]>>

\* The factory of a tier runs once for each key, and may raise.
Select ==
    /\ at = "select"
    /\ cache' = cache \cup {FetcherKey}
    /\ Validate
    /\ at' = "fetch"
    /\ UNCHANGED <<hops, tries, page>>

FactoryRaises == at = "select" /\ FetcherKey \notin cache

-----------------------------------------------------------------------------
(* One fetch                                                                *)

\* The HTTP tiers follow redirects by hand, and validate the new target too.
FollowRedirect ==
    /\ at = "fetch"
    /\ pinned
    /\ CurTier \in {"http", "tls"}
    /\ hops < MaxRedirects
    /\ hops' = hops + 1
    /\ Validate
    /\ UNCHANGED <<cache, tries, page, at>>

\* A refused target, one redirect too many, a dead connection, a page over
\* the size cap: the fetch raises and is not tried again.
FetchRaises == at = "fetch"

\* What a page looks like. Chrome's own error page is large and has a good
\* status, and only the uc tier recognises it.
PageKinds(tier) ==
    {"blocked", "marked", "stub", "whole"}
        \cup (IF tier = "uc" THEN {"chrome_error"} ELSE {})

Challenged(kind) == kind # "whole"

GotPage(kind) ==
    /\ at = "fetch"
    /\ pinned
    /\ page' = kind
    /\ at' = "fetched"
    /\ UNCHANGED <<cache, pinned, hops, tries>>

-----------------------------------------------------------------------------
(* fetch_with_retry                                                         *)

\* Faulty variant: the tries are not counted.
RetryUncounted ==
    /\ at = "fetched"
    /\ Challenged(page) /\ tries < Retries
    /\ hops' = 0 /\ Validate
    /\ at' = "fetch"
    /\ UNCHANGED <<cache, tries, page>>

Retry ==
    /\ at = "fetched"
    /\ Challenged(page) /\ tries < Retries
    /\ tries' = tries + 1
    /\ hops' = 0 /\ Validate
    /\ at' = "fetch"
    /\ UNCHANGED <<cache, page>>
=============================================================================

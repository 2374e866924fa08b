---------------------------- MODULE MCDataPlane ----------------------------
(* Model-checking instances of DataPlane; the .cfg files choose among them.  *)
EXTENDS DataPlane, TLC

CONSTANTS r1, r2, r3, k1, k2

\* r1 and r2 create with the same idempotency key, so that one may replay the
\* other, also what r2 created on /api without a binding; r3 asks about a task
\* on /v2 or on /api, deletes it, or does none of these.
AskOrCreate ==
    [r \in Requests |->
        CASE r = r1 -> {V2Crawl}
          [] r = r2 -> {V2Crawl, ApiCrawl}
          [] OTHER -> {V2CrawlStatus, V2Delete, V2Plain, ApiStatus}]

Symmetry == Permutations(Keys)
=============================================================================

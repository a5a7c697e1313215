----------------------------- MODULE HtmlCache -----------------------------
(***************************************************************************)
(* One entry of the cache of pages, cache/html-cache.ts: the page and its  *)
(* metadata, two files that set() writes in place and in parallel, and     *)
(* that get() takes for a pair when both can be read and the metadata can  *)
(* be parsed; nothing compares the page with its hash.  A file that is     *)
(* being written, or whose write was cut off, is Torn.  What a file holds  *)
(* is the number of the fetch it is from.                                  *)
(***************************************************************************)
EXTENDS Integers

CONSTANT TTL_DAYS   \* how long an entry is good

ASSUME CacheConstants == TTL_DAYS \in Nat

VARIABLES
    html,      \* the page
    meta,      \* the metadata, with the time of the fetch, fetchedAt
    fresh,     \* what set() writes
    toOpen,    \* the files that set() has not begun to write
    opened,    \* the files that set() is writing
    dirty,     \* a set() has begun, and none has ended since
    begunAt,   \* when the last set() began
    fetchedAt  \* when the page that is on disk was fetched

cacheVars == <<html, meta, fresh, toOpen, opened, dirty, begunAt,
               fetchedAt>>

None == 0
Torn == -1
NoFetch == [number |-> None, at |-> 0]

CacheInit ==
    /\ html = None /\ meta = NoFetch /\ fresh = NoFetch
    /\ toOpen = {} /\ opened = {} /\ dirty = FALSE
    /\ begunAt = 0 /\ fetchedAt = 0

\* get() finds a pair, and it is not expired: isExpired().
Hit(now) == /\ html # None
            /\ meta.number \notin {None, Torn}
            /\ now - meta.at <= TTL_DAYS

Files == {"html", "meta"}

SetBegins(number, now) ==
    /\ fresh' = [number |-> number, at |-> now]
    /\ toOpen' = Files /\ opened' = {}
    /\ dirty' = TRUE /\ begunAt' = now
    /\ UNCHANGED <<html, meta, fetchedAt>>

\* A file is truncated when writeFile() opens it.
OpenHtml ==
    /\ "html" \in toOpen
    /\ toOpen' = toOpen \ {"html"} /\ opened' = opened \cup {"html"}
    /\ html' = Torn
    /\ UNCHANGED <<meta, fresh, dirty, begunAt, fetchedAt>>

OpenMeta ==
    /\ "meta" \in toOpen
    /\ toOpen' = toOpen \ {"meta"} /\ opened' = opened \cup {"meta"}
    /\ meta' = [number |-> Torn, at |-> 0]
    /\ UNCHANGED <<html, fresh, dirty, begunAt, fetchedAt>>

WriteHtml ==
    /\ "html" \in opened
    /\ opened' = opened \ {"html"}
    /\ html' = fresh.number /\ fetchedAt' = fresh.at
    /\ UNCHANGED <<meta, fresh, toOpen, dirty, begunAt>>

WriteMeta ==
    /\ "meta" \in opened
    /\ opened' = opened \ {"meta"}
    /\ meta' = fresh
    /\ UNCHANGED <<html, fresh, toOpen, dirty, begunAt, fetchedAt>>

\* Variant of SetEnds with a bug: the first write that ends is enough.
SetEndsEarly ==
    /\ toOpen = {} /\ opened # Files
    /\ fresh' = NoFetch /\ opened' = {} /\ dirty' = FALSE
    /\ UNCHANGED <<html, meta, toOpen, begunAt, fetchedAt>>

SetEnds ==
    /\ toOpen = {} /\ opened = {}
    /\ fresh' = NoFetch /\ dirty' = FALSE
    /\ UNCHANGED <<html, meta, toOpen, opened, begunAt, fetchedAt>>

\* The process dies: the files stay as they are.
SetCut ==
    /\ fresh' = NoFetch /\ toOpen' = {} /\ opened' = {}
    /\ UNCHANGED <<html, meta, dirty, begunAt, fetchedAt>>

-----------------------------------------------------------------------------
CacheTypes ==
    /\ html \in Int /\ meta \in [number : Int, at : Nat]
    /\ fresh \in [number : Int, at : Nat]
    /\ toOpen \subseteq Files /\ opened \subseteq Files
    /\ dirty \in BOOLEAN /\ begunAt \in Nat /\ fetchedAt \in Nat
=============================================================================

--------------------------- MODULE NavigationCache ---------------------------
(***************************************************************************)
(* Open documents and the cache of navigation answers of sage-ls           *)
(* (crates/sage-ls/src/navigation.rs, open_documents.rs and the document   *)
(* notifications of main.rs).                                              *)
(*                                                                         *)
(* A request takes its document under one lock, then the index under       *)
(* another, and answers from the cache or computes; the key names the      *)
(* document by URI and version, the index by generation.  Notifications    *)
(* change a document first and purge its answers later.  An install bumps  *)
(* the generation and clears the cache later; a preload changes the index  *)
(* at the same generation and clears the cache under the index's lock.     *)
(*                                                                         *)
(* A position and the kind of request are left out of the key: requests    *)
(* that differ there never meet.                                           *)
(***************************************************************************)
EXTENDS Integers, Sequences, FiniteSets

CONSTANTS
  Uris,        \* URIs of documents
  Physical,    \* the file each URI names; aliases name one file
  Texts,       \* what a document or a file can hold
  Requests,    \* requests that may be under way at once
  Handlers,    \* slots in which tower-lsp runs document notifications
  None,        \* a file that cannot be read, a document that is not open, no answer
  Capacity,    \* answers the cache keeps, 128 in the code
  MaxVersion,  \* bound: versions a client gives a document
  MaxIndexes,  \* bound: installs and preloads
  Reopens      \* whether a closed document is opened again, from version 1 on

ASSUME NavigationBounds ==
  /\ Capacity \in Nat \ {0} /\ MaxVersion \in Nat \ {0} /\ MaxIndexes \in Nat
  /\ Reopens \in BOOLEAN /\ None \notin Texts \cup Uris
  /\ DOMAIN Physical = Uris

VARIABLES
  open,        \* Backend.open_documents
  versions,    \* the version the client gave each document last
  disk,        \* what each file holds
  purging,     \* the document whose answers each notification handler has yet to purge
  generation,  \* IndexStatus.generation of the installed index
  index,       \* the content of the installed index, named by a number
  writing,     \* a preload holds the index's write lock
  clearing,    \* index jobs between their install and their clear
  entries,     \* NavigationQueryCache.entries
  order,       \* NavigationQueryCache.order
  seen,        \* the document each request took
  asking,      \* the requests that hold the index's read lock
  answer       \* what each request was answered

documents == <<open, versions, disk, purging>>
indexing  == <<generation, index, writing, clearing>>
cache     == <<entries, order>>
requests  == <<seen, asking, answer>>
vars == <<documents, indexing, cache, requests>>

Files    == {Physical[u] : u \in Uris}
Versions == 0..MaxVersion   \* 0 stands for i32::MIN, the version of a text read from disk
Document == [text : Texts, version : Versions]
Answer   == [text : Texts, index : Nat]
Key      == [uri : Uris, version : Versions, fingerprint : Texts \cup {None},
             generation : Nat]
NoDocument == [text |-> None, version |-> 0]
NotAsked   == [uri |-> None, text |-> None, version |-> 0]

Init ==
  /\ open = [u \in Uris |-> NoDocument] /\ versions = [u \in Uris |-> 0]
  /\ disk \in [Files -> Texts \cup {None}]
  /\ purging = [h \in Handlers |-> None]
  /\ generation = 0 /\ index = 0 /\ writing = FALSE /\ clearing = 0
  /\ entries = <<>> /\ order = <<>>
  /\ seen = [r \in Requests |-> NotAsked]
  /\ asking = {}
  /\ answer = [r \in Requests |-> None]

IsOpen(u) == open[u] # NoDocument

-----------------------------------------------------------------------------
(* Document notifications.  Each takes the lock of the documents first, in *)
(* the order of the client, and the lock of the cache later.               *)

Notified(h, u, document) ==
  /\ purging[h] = None
  /\ open' = [open EXCEPT ![u] = document]
  /\ purging' = [purging EXCEPT ![h] = u]
  /\ UNCHANGED <<indexing, cache, requests>>

DidOpen(h, u, text) ==
  /\ ~IsOpen(u) /\ (Reopens \/ versions[u] = 0)
  /\ versions' = [versions EXCEPT ![u] = 1]
  /\ Notified(h, u, [text |-> text, version |-> 1])
  /\ UNCHANGED disk

DidChange(h, u, text) ==
  /\ IsOpen(u) /\ versions[u] < MaxVersion
  /\ versions' = [versions EXCEPT ![u] = @ + 1]
  /\ Notified(h, u, [text |-> text, version |-> versions'[u]])
  /\ UNCHANGED disk

\* The client sends the text it has written to the file, which is the document's.
DidSave(h, u) ==
  /\ IsOpen(u) /\ disk[Physical[u]] # open[u].text
  /\ disk' = [disk EXCEPT ![Physical[u]] = open[u].text]
  /\ Notified(h, u, open[u])
  /\ UNCHANGED versions

DidClose(h, u) ==
  /\ IsOpen(u)
  /\ Notified(h, u, NoDocument)
  /\ UNCHANGED <<versions, disk>>

\* Mutant: the answers go, their keys stay in the order of eviction.
MutKept(keys) ==
  /\ entries' = [k \in keys |-> entries[k]]
  /\ UNCHANGED order

\* The n-th smallest of a set of numbers.
Nth(S, n) == CHOOSE i \in S : Cardinality({j \in S : j <= i}) = n

\* What is kept stays in the order it had.
Kept(keys) ==
  LET places == {i \in DOMAIN order : order[i] \in keys}
  IN /\ entries' = [k \in keys |-> entries[k]]
     /\ order' = [n \in 1..Cardinality(places) |-> order[Nth(places, n)]]

InvalidateUri(h) ==
  /\ purging[h] # None
  /\ purging' = [purging EXCEPT ![h] = None]
  /\ Kept({k \in DOMAIN entries : k.uri # purging[h]})
  /\ UNCHANGED <<open, versions, disk, indexing, requests>>

-----------------------------------------------------------------------------
(* The installed index changes under its write lock.                       *)

CanWrite == asking = {} /\ ~writing /\ index < MaxIndexes

\* An index job installs a new generation; it clears the cache when it has let the lock go.
Install ==
  /\ CanWrite
  /\ generation' = generation + 1 /\ index' = index + 1
  /\ clearing' = clearing + 1
  /\ UNCHANGED <<documents, writing, cache, requests>>

ClearAfterInstall ==
  /\ clearing > 0
  /\ clearing' = clearing - 1
  /\ Kept({})
  /\ UNCHANGED <<documents, generation, index, writing, requests>>

\* Mutant: the preload lets the index go before it clears the cache.
MutPreload ==
  /\ CanWrite
  /\ index' = index + 1 /\ clearing' = clearing + 1
  /\ UNCHANGED <<documents, generation, writing, cache, requests>>

\* preload_indexed_files leaves the generation as it is and keeps the lock.
Preload ==
  /\ CanWrite
  /\ index' = index + 1 /\ writing' = TRUE
  /\ UNCHANGED <<documents, generation, clearing, cache, requests>>

ClearAfterPreload ==
  /\ writing
  /\ writing' = FALSE
  /\ Kept({})
  /\ UNCHANGED <<documents, generation, index, clearing, requests>>

-----------------------------------------------------------------------------
(* Requests: hover and goto_navigation_response.                           *)

\* The live document of a path is the one with the highest version among its aliases; a tie
\* is broken by the URI in the code.
LiveUris(u) == {v \in Uris : IsOpen(v) /\ Physical[v] = Physical[u]}
NewestUris(u) == {v \in LiveUris(u) : \A w \in LiveUris(u) : open[w].version <= open[v].version}

DocumentsForUri(u) ==
  IF IsOpen(u) THEN {open[u]}
  ELSE IF LiveUris(u) # {} THEN {open[v] : v \in NewestUris(u)}
  ELSE IF disk[Physical[u]] # None THEN {[text |-> disk[Physical[u]], version |-> 0]} ELSE {}

Pending(r) == seen[r] # NotAsked /\ answer[r] = None

\* document_for_uri: the request takes its document and lets the lock go.
Look(r, u) ==
  /\ ~Pending(r)
  /\ \E document \in DocumentsForUri(u) :
       seen' = [seen EXCEPT ![r] = [uri |-> u, text |-> document.text,
                                    version |-> document.version]]
  /\ answer' = [answer EXCEPT ![r] = None]
  /\ UNCHANGED <<documents, indexing, cache, asking>>

\* A text read from disk is named by a fingerprint of its content.
QueryCacheKey(d) ==
  [uri |-> d.uri, version |-> d.version, generation |-> generation,
   fingerprint |-> IF d.version = 0 THEN d.text ELSE None]

\* With the index's read lock, the request looks into the cache; a hit gives the lock back.
ReadCache(r) ==
  LET key == QueryCacheKey(seen[r])
  IN /\ Pending(r) /\ r \notin asking /\ ~writing
     /\ IF key \in DOMAIN entries
        THEN answer' = [answer EXCEPT ![r] = entries[key]] /\ UNCHANGED asking
        ELSE asking' = asking \cup {r} /\ UNCHANGED answer
     /\ UNCHANGED <<documents, indexing, cache, seen>>

Inserted(key, a) == [k \in DOMAIN entries \cup {key} |-> IF k = key THEN a ELSE entries[k]]

\* NavigationQueryCache::insert: the oldest answer makes room for the new one.
Insert(key, a) ==
  LET grown == Inserted(key, a)
      line  == IF key \in DOMAIN entries THEN order ELSE Append(order, key)
  IN IF Cardinality(DOMAIN grown) <= Capacity
     THEN entries' = grown /\ order' = line
     ELSE /\ entries' = [k \in DOMAIN grown \ {Head(line)} |-> grown[k]]
          /\ order' = Tail(line)

\* A miss is computed and stored before the index is let go.
Compute(r) ==
  LET a == [text |-> seen[r].text, index |-> index]
  IN /\ r \in asking
     /\ Insert(QueryCacheKey(seen[r]), a)
     /\ answer' = [answer EXCEPT ![r] = a]
     /\ asking' = asking \ {r}
     /\ UNCHANGED <<documents, indexing, seen>>

-----------------------------------------------------------------------------
Notification(h) ==
  \E u \in Uris :
    \/ \E text \in Texts : DidOpen(h, u, text) \/ DidChange(h, u, text)
    \/ DidSave(h, u) \/ DidClose(h, u)

Next ==
  \/ \E h \in Handlers : Notification(h) \/ InvalidateUri(h)
  \/ Install \/ ClearAfterInstall \/ Preload \/ ClearAfterPreload
  \/ \E r \in Requests : ReadCache(r) \/ Compute(r) \/ \E u \in Uris : Look(r, u)

Spec == Init /\ [][Next]_vars

-----------------------------------------------------------------------------
(* Types; a request computes only while no preload writes; and entries and *)
(* order name the same answers, each once, never more than Capacity:       *)
(* `insert` pops until the cache fits, and would spin for ever on an order *)
(* that has run out of keys.                                               *)
TypeOK ==
  /\ open \in [Uris -> Document \cup {NoDocument}] /\ versions \in [Uris -> Versions]
  /\ disk \in [Files -> Texts \cup {None}] /\ purging \in [Handlers -> Uris \cup {None}]
  /\ generation \in Nat /\ index \in Nat /\ writing \in BOOLEAN /\ clearing \in Nat
  /\ DOMAIN entries \subseteq Key /\ \A k \in DOMAIN entries : entries[k] \in Answer
  /\ order \in Seq(Key)
  /\ seen \in [Requests -> [uri : Uris, text : Texts, version : Versions] \cup {NotAsked}]
  /\ asking \subseteq Requests /\ answer \in [Requests -> Answer \cup {None}]
  /\ writing => asking = {}
  /\ {order[i] : i \in DOMAIN order} = DOMAIN entries
  /\ Len(order) = Cardinality(DOMAIN entries) /\ Len(order) <= Capacity

(* The cache cannot be noticed: every answer is the answer to the text the *)
(* request took, from the index installed when it was given, although      *)
(* documents change before their answers are purged, installs clear late   *)
(* and preloads keep the generation.                                       *)
Service == INSTANCE NavigationService
             WITH seen <- [r \in Requests |-> seen[r].text], Indexes <- Nat
CacheIsInvisible == Service!Spec
=============================================================================

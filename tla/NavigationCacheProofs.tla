------------------------- MODULE NavigationCacheProofs -------------------------
(***************************************************************************)
(* Theorems about NavigationCache (crates/sage-ls/src/navigation.rs):      *)
(* while URIs do not alias each other and no document is opened twice, the *)
(* cache implements the service without a cache.  The invariant says that  *)
(* a version names one text, wherever that text has got to: the document,  *)
(* a request that took it, an answer that outlived it.  Types and the      *)
(* order of eviction are right for any URIs and documents.                 *)
(***************************************************************************)
EXTENDS NavigationCache, FiniteSetTheorems, TLAPS

NoAliases == \A u, v \in Uris : Physical[u] = Physical[v] => u = v

Taken == [uri : Uris, text : Texts, version : Versions]

CacheTypes ==
  /\ open \in [Uris -> Document \cup {NoDocument}] /\ versions \in [Uris -> Versions]
  /\ disk \in [Files -> Texts \cup {None}]
  /\ generation \in Nat /\ index \in Nat
  /\ DOMAIN entries \subseteq Key /\ \A k \in DOMAIN entries : entries[k] \in Answer
  /\ seen \in [Requests -> Taken \cup {NotAsked}]
  /\ asking \subseteq Requests /\ answer \in [Requests -> Answer \cup {None}]

\* Where version n of u is, and with which text.
InDocument(u, n, text) == IsOpen(u) /\ open[u].version = n /\ open[u].text = text
InRequest(u, n, text) == \E r \in Requests : seen[r] = [uri |-> u, text |-> text, version |-> n]
InCache(u, n, text) ==
  \E k \in DOMAIN entries : k.uri = u /\ k.version = n /\ entries[k].text = text
Known(u, n, text) == InDocument(u, n, text) \/ InRequest(u, n, text) \/ InCache(u, n, text)

OpenVersions == \A u \in Uris : IsOpen(u) => open[u].version = versions[u] /\ versions[u] >= 1
VersionsPast ==
  \A u \in Uris, n \in Versions, text \in Texts : Known(u, n, text) => n <= versions[u]
OneText ==
  \A u \in Uris, n \in Versions \ {0}, s, t \in Texts : Known(u, n, s) /\ Known(u, n, t) => s = t

\* An entry tells the text that was read from disk, and its generation's index.
EntriesExact ==
  \A k \in DOMAIN entries :
    /\ k.version = 0 => k.fingerprint = entries[k].text
    /\ k.generation <= generation
    /\ ~writing /\ k.generation = generation => entries[k].index = index

Asking ==
  /\ \A r \in asking : seen[r] # NotAsked /\ answer[r] = None
  /\ writing => asking = {}

CacheInv == CacheTypes /\ OpenVersions /\ VersionsPast /\ OneText /\ EntriesExact /\ Asking

-----------------------------------------------------------------------------
LEMMA InitCache == Init => CacheInv
<1> SUFFICES ASSUME Init PROVE CacheInv
  OBVIOUS
<1>1. /\ \A u \in Uris : ~IsOpen(u) /\ versions[u] = 0
      /\ \A r \in Requests : seen[r] = NotAsked
      /\ DOMAIN entries = {}
  BY DEF Init, IsOpen
<1>2. CacheTypes
  BY <1>1, NavigationBounds DEF Init, CacheTypes, Versions
<1>3. \A u \in Uris, n \in Versions, text \in Texts : ~Known(u, n, text)
  <2> SUFFICES ASSUME NEW u \in Uris, NEW n \in Versions, NEW text \in Texts PROVE ~Known(u, n, text)
    OBVIOUS
  <2>1. [uri |-> u, text |-> text, version |-> n] # NotAsked
    BY NavigationBounds DEF NotAsked
  <2> QED
    BY <1>1, <2>1 DEF Known, InDocument, InRequest, InCache
<1>4. OpenVersions /\ VersionsPast /\ OneText
  BY <1>1, <1>3 DEF OpenVersions, VersionsPast, OneText
<1>5. EntriesExact /\ Asking
  BY <1>1 DEF EntriesExact, Asking, Init
<1> QED
  BY <1>2, <1>4, <1>5 DEF CacheInv

\* Texts that nobody has yet make no difference to those that are known.
LEMMA NothingNew ==
  ASSUME VersionsPast, OneText, UNCHANGED versions,
         \A u \in Uris, n \in Versions, text \in Texts : Known(u, n, text)' => Known(u, n, text)
  PROVE  VersionsPast' /\ OneText'
  BY DEF VersionsPast, OneText

\* A version that is newer than all known ones has one text.
LEMMA NewVersion ==
  ASSUME CacheTypes, VersionsPast, OneText, NEW v \in Uris, NEW fresh \in Texts,
         versions[v] + 1 \in Versions, versions' = [versions EXCEPT ![v] = @ + 1],
         \A u \in Uris, n \in Versions, text \in Texts :
           Known(u, n, text)' => Known(u, n, text) \/ (u = v /\ n = versions[v] + 1 /\ text = fresh)
  PROVE  VersionsPast' /\ OneText'
<1>1. versions[v] \in Nat /\ versions'[v] = versions[v] + 1
  BY DEF CacheTypes, Versions
<1>2. \A u \in Uris : versions[u] \in Nat /\ versions[u] <= versions'[u]
  BY <1>1 DEF CacheTypes, Versions
<1>3. VersionsPast'
  BY <1>1, <1>2 DEF VersionsPast, Versions
<1>4. \A text \in Texts : ~Known(v, versions[v] + 1, text)
  BY <1>1 DEF VersionsPast
<1>5. OneText'
  BY <1>4 DEF OneText
<1> QED
  BY <1>3, <1>5

-----------------------------------------------------------------------------
(* Notifications.                                                          *)

LEMMA NotificationInv ==
  ASSUME ~Reopens, CacheInv, NEW h \in Handlers, Notification(h)
  PROVE  CacheInv'
<1> USE DEF CacheInv
<1>1. PICK v \in Uris :
        \/ \E text \in Texts : DidOpen(h, v, text) \/ DidChange(h, v, text)
        \/ DidSave(h, v) \/ DidClose(h, v)
  BY DEF Notification
<1>2. UNCHANGED <<generation, index, writing, entries, seen, asking, answer>>
  BY <1>1 DEF DidOpen, DidChange, DidSave, DidClose, Notified, indexing, cache, requests
<1>3. EntriesExact' /\ Asking'
  BY <1>2 DEF EntriesExact, Asking
<1>4. \A u \in Uris, n \in Versions, text \in Texts :
        Known(u, n, text)' => Known(u, n, text) \/ InDocument(u, n, text)'
  BY <1>2 DEF Known, InRequest, InCache
<1>5. ASSUME NEW text \in Texts, DidOpen(h, v, text) \/ DidChange(h, v, text)
      PROVE  CacheInv'
  <2> DEFINE n == versions[v] + 1
             document == [text |-> text, version |-> n]
  <2>1. versions[v] \in Nat /\ n \in Versions
    BY <1>5, NavigationBounds DEF DidOpen, DidChange, CacheTypes, Versions
  <2>2. versions' = [versions EXCEPT ![v] = n] /\ open' = [open EXCEPT ![v] = document]
        /\ UNCHANGED disk
    BY <1>5, <2>1 DEF DidOpen, DidChange, Notified, CacheTypes
  <2>3. document \in Document /\ document # NoDocument
    BY <2>1, NavigationBounds DEF Document, NoDocument
  <2>4. CacheTypes'
    BY <1>2, <2>1, <2>2, <2>3 DEF CacheTypes
  <2>5. \A u \in Uris : open'[u] = IF u = v THEN document ELSE open[u]
    BY <2>2 DEF CacheTypes
  <2>6. OpenVersions'
    BY <2>1, <2>2, <2>5 DEF OpenVersions, IsOpen, CacheTypes
  <2>7. \A u \in Uris, m \in Versions, t \in Texts :
          InDocument(u, m, t)' => InDocument(u, m, t) \/ (u = v /\ m = n /\ t = text)
    BY <2>5 DEF InDocument, IsOpen
  <2>8. VersionsPast' /\ OneText'
    <3>1. \A u \in Uris, m \in Versions, t \in Texts :
            Known(u, m, t)' => Known(u, m, t) \/ (u = v /\ m = n /\ t = text)
      BY <1>4, <2>7 DEF Known
    <3> QED
      BY <2>1, <2>2, <3>1, NewVersion
  <2> QED
    BY <1>3, <2>4, <2>6, <2>8
<1>6. ASSUME DidSave(h, v) \/ DidClose(h, v) PROVE CacheInv'
  <2>1. UNCHANGED versions /\ \A u \in Uris : open'[u] \in {open[u], NoDocument}
    BY <1>6 DEF DidSave, DidClose, Notified, CacheTypes
  <2>2. CacheTypes'
    <3>1. open[v] # NoDocument => open[v].text \in Texts
      BY DEF CacheTypes, Document
    <3>2. disk' \in [Files -> Texts \cup {None}]
      BY <1>6, <3>1 DEF DidSave, DidClose, IsOpen, CacheTypes
    <3>3. open' \in [Uris -> Document \cup {NoDocument}]
      BY <1>6 DEF DidSave, DidClose, Notified, CacheTypes
    <3> QED
      BY <1>2, <2>1, <3>2, <3>3 DEF CacheTypes
  <2>3. OpenVersions'
    BY <2>1 DEF OpenVersions, IsOpen
  <2>4. \A u \in Uris, n \in Versions, text \in Texts : InDocument(u, n, text)' => InDocument(u, n, text)
    BY <2>1 DEF InDocument, IsOpen
  <2>5. VersionsPast' /\ OneText'
    BY <1>4, <2>1, <2>4, NothingNew DEF Known
  <2> QED
    BY <1>3, <2>2, <2>3, <2>5
<1> QED
  BY <1>1, <1>5, <1>6

-----------------------------------------------------------------------------
(* Purges and index jobs: entries only go, except those of an older index. *)

LEMMA KeptEntries ==
  ASSUME NEW keys \in SUBSET DOMAIN entries, Kept(keys)
  PROVE  DOMAIN entries' = keys /\ \A k \in keys : entries'[k] = entries[k]
<1>1. entries' = [k \in keys |-> entries[k]]
  BY Zenon DEF Kept
<1> QED
  BY <1>1

\* Entries go, and what is left is of the installed index.
LEMMA FewerEntries ==
  ASSUME CacheInv, UNCHANGED <<open, versions, disk, seen, asking, answer>>,
         DOMAIN entries' \subseteq DOMAIN entries, \A k \in DOMAIN entries' : entries'[k] = entries[k],
         generation' \in Nat, index' \in Nat, EntriesExact', Asking'
  PROVE  CacheInv'
<1> USE DEF CacheInv
<1>1. CacheTypes' /\ OpenVersions'
  BY DEF CacheTypes, OpenVersions, IsOpen
<1>2. \A u \in Uris, n \in Versions, text \in Texts : Known(u, n, text)' => Known(u, n, text)
  BY DEF Known, InDocument, InRequest, InCache, IsOpen
<1>3. VersionsPast' /\ OneText'
  BY <1>2, NothingNew
<1> QED
  BY <1>1, <1>3

LEMMA PurgeInv == ASSUME CacheInv, NEW h \in Handlers, InvalidateUri(h) PROVE CacheInv'
<1> DEFINE keys == {k \in DOMAIN entries : k.uri # purging[h]}
<1>1. Kept(keys) /\ UNCHANGED <<open, versions, disk, indexing, requests>>
  BY DEF InvalidateUri
<1>2. DOMAIN entries' = keys /\ \A k \in keys : entries'[k] = entries[k]
  BY <1>1, KeptEntries
<1>3. EntriesExact' /\ Asking'
  BY <1>1, <1>2 DEF CacheInv, EntriesExact, Asking, indexing, requests
<1>4. generation' \in Nat /\ index' \in Nat
  BY <1>1 DEF CacheInv, CacheTypes, indexing
<1> QED
  BY <1>1, <1>2, <1>3, <1>4, FewerEntries DEF requests

LEMMA IndexInv ==
  ASSUME CacheInv, Install \/ ClearAfterInstall \/ Preload \/ ClearAfterPreload
  PROVE  CacheInv'
<1> USE DEF CacheInv
<1>1. UNCHANGED <<open, versions, disk, seen, asking, answer>>
  BY DEF Install, ClearAfterInstall, Preload, ClearAfterPreload, documents, requests
<1>2. generation \in Nat /\ index \in Nat
  BY DEF CacheTypes
<1>3. CASE Install
  <2>1. generation' = generation + 1 /\ index' = index + 1 /\ UNCHANGED <<entries, writing>> /\ asking = {}
    BY <1>3 DEF Install, CanWrite, cache
  <2>2. \A k \in DOMAIN entries : k.generation \in Nat /\ k.generation <= generation
    BY DEF EntriesExact, CacheTypes, Key
  <2>3. EntriesExact' /\ Asking'
    BY <1>1, <1>2, <2>1, <2>2 DEF EntriesExact, Asking
  <2> QED
    BY <1>1, <1>2, <2>1, <2>3, FewerEntries
<1>4. CASE Preload
  <2>1. /\ UNCHANGED <<generation, entries>> /\ index' = index + 1 /\ writing' = TRUE
        /\ asking = {}
    BY <1>4 DEF Preload, CanWrite, cache
  <2>2. EntriesExact' /\ Asking'
    BY <1>1, <2>1 DEF EntriesExact, Asking
  <2> QED
    BY <1>1, <1>2, <2>1, <2>2, FewerEntries
<1>5. CASE ClearAfterInstall \/ ClearAfterPreload
  <2>1. Kept({}) /\ UNCHANGED <<generation, index>> /\ (writing' = writing \/ writing' = FALSE)
    BY <1>5 DEF ClearAfterInstall, ClearAfterPreload
  <2>2. DOMAIN entries' = {}
    BY <2>1, KeptEntries
  <2>3. EntriesExact' /\ Asking'
    BY <1>1, <2>1, <2>2 DEF EntriesExact, Asking
  <2> QED
    BY <1>1, <1>2, <2>1, <2>2, <2>3, FewerEntries
<1> QED
  BY <1>3, <1>4, <1>5

-----------------------------------------------------------------------------
(* Requests.                                                               *)

\* Without aliases, a request takes the document of its URI or the file.
LEMMA TakesOwn ==
  ASSUME NoAliases, CacheInv, NEW u \in Uris, NEW document \in DocumentsForUri(u)
  PROVE  /\ document.text \in Texts /\ document.version \in Versions
         /\ document.version # 0 => InDocument(u, document.version, document.text)
<1>1. CASE IsOpen(u)
  BY <1>1 DEF DocumentsForUri, CacheInv, CacheTypes, IsOpen, InDocument, Document
<1>2. CASE ~IsOpen(u)
  <2>1. LiveUris(u) = {}
    BY <1>2 DEF LiveUris, NoAliases
  <2>2. document = [text |-> disk[Physical[u]], version |-> 0] /\ disk[Physical[u]] # None
    BY <1>2, <2>1 DEF DocumentsForUri
  <2>3. disk[Physical[u]] \in Texts
    BY <2>2 DEF CacheInv, CacheTypes, Files
  <2> QED
    BY <2>2, <2>3, NavigationBounds DEF Versions
<1> QED
  BY <1>1, <1>2

LEMMA LookInv ==
  ASSUME NoAliases, CacheInv, NEW r \in Requests, NEW u \in Uris, Look(r, u)
  PROVE  CacheInv' /\ \E text \in Texts : \A q \in Requests :
                         seen'[q].text = IF q = r THEN text ELSE seen[q].text
<1> USE DEF CacheInv
<1>1. PICK document \in DocumentsForUri(u) :
        seen' = [seen EXCEPT ![r] = [uri |-> u, text |-> document.text, version |-> document.version]]
  BY DEF Look
<1> DEFINE taken == [uri |-> u, text |-> document.text, version |-> document.version]
<1>2. /\ taken \in Taken /\ taken.text \in Texts
      /\ document.version # 0 => InDocument(u, document.version, document.text)
  BY TakesOwn DEF Taken
<1>3. /\ UNCHANGED <<open, versions, disk, generation, index, writing, entries, asking>>
      /\ answer' = [answer EXCEPT ![r] = None] /\ ~Pending(r)
  BY DEF Look, documents, indexing, cache
<1>4. CacheTypes'
  BY <1>1, <1>2, <1>3 DEF CacheTypes
<1>5. OpenVersions' /\ EntriesExact'
  BY <1>3 DEF OpenVersions, EntriesExact, IsOpen
<1>6. Asking'
  BY <1>1, <1>3 DEF Asking, Pending, CacheTypes
<1>7. \A v \in Uris, n \in Versions, text \in Texts :
        Known(v, n, text)' => Known(v, n, text) \/ (n = 0 /\ v = u)
  <2> SUFFICES ASSUME NEW v \in Uris, NEW n \in Versions, NEW text \in Texts,
                      Known(v, n, text)', ~Known(v, n, text)
               PROVE  n = 0 /\ v = u
    OBVIOUS
  <2>1. InRequest(v, n, text)'
    BY <1>3 DEF Known, InDocument, InCache, IsOpen
  <2>2. taken = [uri |-> v, text |-> text, version |-> n]
    BY <1>1, <2>1 DEF Known, InRequest, CacheTypes
  <2>3. v = u /\ text = document.text /\ n = document.version
    BY <2>2
  <2> QED
    BY <1>2, <2>3 DEF Known
<1>8. VersionsPast' /\ OneText'
  <2>1. \A v \in Uris : versions[v] \in Nat
    BY DEF CacheTypes, Versions
  <2> QED
    BY <1>3, <1>7, <2>1 DEF VersionsPast, OneText
<1>9. \A q \in Requests : seen'[q].text = IF q = r THEN taken.text ELSE seen[q].text
  BY <1>1 DEF CacheTypes
<1> QED
  BY <1>2, <1>4, <1>5, <1>6, <1>8, <1>9

\* A request that was seen to take a document.
LEMMA SeenTaken ==
  ASSUME CacheTypes, NEW r \in Requests, seen[r] # NotAsked
  PROVE  /\ seen[r] \in Taken /\ seen[r].text \in Texts /\ seen[r].text # None
         /\ InRequest(seen[r].uri, seen[r].version, seen[r].text)
         /\ QueryCacheKey(seen[r]) \in Key
<1>1. seen[r] \in Taken /\ generation \in Nat
  BY DEF CacheTypes
<1>2. seen[r] = [uri |-> seen[r].uri, text |-> seen[r].text, version |-> seen[r].version]
  BY <1>1 DEF Taken
<1>3. InRequest(seen[r].uri, seen[r].version, seen[r].text)
  BY <1>2 DEF InRequest
<1>4. QueryCacheKey(seen[r]) \in Key
  BY <1>1 DEF QueryCacheKey, Key, Taken
<1> QED
  BY <1>1, <1>3, <1>4, NavigationBounds DEF Taken

\* What the cache has is what would be computed.
LEMMA HitIsRight ==
  ASSUME CacheInv, ~writing, NEW r \in Requests, seen[r] # NotAsked,
         QueryCacheKey(seen[r]) \in DOMAIN entries
  PROVE  entries[QueryCacheKey(seen[r])] = [text |-> seen[r].text, index |-> index]
<1> DEFINE k == QueryCacheKey(seen[r])
<1> USE DEF CacheInv
<1>1. /\ seen[r] \in Taken /\ seen[r].text \in Texts
      /\ InRequest(seen[r].uri, seen[r].version, seen[r].text)
  BY SeenTaken
<1>2. /\ k.uri = seen[r].uri /\ k.version = seen[r].version /\ k.generation = generation
      /\ k.version = 0 => k.fingerprint = seen[r].text
  BY DEF QueryCacheKey
<1>3. entries[k] \in Answer /\ entries[k].index = index
  BY <1>2 DEF CacheTypes, EntriesExact
<1>4. entries[k].text = seen[r].text
  <2>1. CASE k.version = 0
    BY <1>2, <2>1 DEF EntriesExact
  <2>2. CASE k.version # 0
    <3>1. InCache(k.uri, k.version, entries[k].text)
      BY DEF InCache
    <3>2. k.uri \in Uris /\ k.version \in Versions \ {0} /\ entries[k].text \in Texts
      BY <1>1, <1>2, <1>3, <2>2 DEF Taken, Answer
    <3> QED
      BY <1>1, <1>2, <3>1, <3>2 DEF OneText, Known
  <2> QED
    BY <2>1, <2>2
<1> QED
  BY <1>3, <1>4 DEF Answer

LEMMA ReadInv ==
  ASSUME CacheInv, NEW r \in Requests, ReadCache(r)
  PROVE  /\ CacheInv' /\ UNCHANGED <<seen, index>> /\ seen[r].text # None
         /\ \/ UNCHANGED answer
            \/ answer' = [answer EXCEPT ![r] = [text |-> seen[r].text, index |-> index]]
<1> USE DEF CacheInv
<1> DEFINE key == QueryCacheKey(seen[r])
           a == [text |-> seen[r].text, index |-> index]
<1>1. /\ UNCHANGED <<open, versions, disk, generation, index, writing, entries, seen>>
      /\ ~writing /\ seen[r] # NotAsked /\ answer[r] = None /\ r \notin asking
  BY DEF ReadCache, Pending, documents, indexing, cache
<1>2. seen[r].text \in Texts /\ seen[r].text # None /\ a \in Answer
  BY <1>1, SeenTaken DEF Answer, CacheTypes
<1>3. \/ key \in DOMAIN entries /\ answer' = [answer EXCEPT ![r] = a] /\ UNCHANGED asking
      \/ asking' = asking \cup {r} /\ UNCHANGED answer
  BY <1>1, HitIsRight DEF ReadCache
<1>4. CacheTypes'
  BY <1>1, <1>2, <1>3 DEF CacheTypes
<1>5. Asking'
  BY <1>1, <1>3 DEF Asking, CacheTypes
<1>6. OpenVersions' /\ EntriesExact'
  BY <1>1 DEF OpenVersions, EntriesExact, IsOpen
<1>7. VersionsPast' /\ OneText'
  <2>1. \A u \in Uris, n \in Versions, text \in Texts : Known(u, n, text)' => Known(u, n, text)
    BY <1>1 DEF Known, InDocument, InRequest, InCache, IsOpen
  <2> QED
    BY <1>1, <2>1, NothingNew
<1> QED
  BY <1>1, <1>2, <1>3, <1>4, <1>5, <1>6, <1>7

\* An insertion adds one entry and may drop one.
LEMMA InsertEntries ==
  ASSUME NEW key, NEW a, Insert(key, a)
  PROVE  /\ DOMAIN entries' \subseteq DOMAIN entries \cup {key}
         /\ \A k \in DOMAIN entries' : entries'[k] = IF k = key THEN a ELSE entries[k]
<1> DEFINE grown == Inserted(key, a)
           line == IF key \in DOMAIN entries THEN order ELSE Append(order, key)
<1>1. /\ DOMAIN grown = DOMAIN entries \cup {key}
      /\ \A k \in DOMAIN grown : grown[k] = IF k = key THEN a ELSE entries[k]
  BY DEF Inserted
<1>2. entries' = grown \/ entries' = [k \in DOMAIN grown \ {Head(line)} |-> grown[k]]
  BY DEF Insert
<1> HIDE DEF grown, line
<1> QED
  BY <1>1, <1>2

LEMMA ComputeInv ==
  ASSUME CacheInv, NEW r \in Requests, Compute(r)
  PROVE  /\ CacheInv' /\ UNCHANGED <<seen, index>> /\ seen[r].text # None
         /\ answer' = [answer EXCEPT ![r] = [text |-> seen[r].text, index |-> index]]
<1> USE DEF CacheInv
<1> DEFINE key == QueryCacheKey(seen[r])
           a == [text |-> seen[r].text, index |-> index]
<1>1. /\ UNCHANGED <<open, versions, disk, generation, index, writing, seen>>
      /\ Insert(key, a) /\ answer' = [answer EXCEPT ![r] = a] /\ asking' = asking \ {r} /\ r \in asking
  BY DEF Compute, documents, indexing
<1>2. seen[r] # NotAsked
  BY <1>1 DEF Asking
<1>3. /\ seen[r].text \in Texts /\ seen[r].text # None /\ key \in Key /\ a \in Answer
      /\ InRequest(seen[r].uri, seen[r].version, seen[r].text)
  BY <1>2, SeenTaken DEF Answer, CacheTypes
<1>4. /\ key.uri = seen[r].uri /\ key.version = seen[r].version /\ key.generation = generation
      /\ key.version = 0 => key.fingerprint = a.text
  BY DEF QueryCacheKey
<1>5. a.text = seen[r].text /\ a.index = index
  OBVIOUS
<1> HIDE DEF key, a
<1>6. /\ DOMAIN entries' \subseteq DOMAIN entries \cup {key}
      /\ \A k \in DOMAIN entries' : entries'[k] = IF k = key THEN a ELSE entries[k]
  BY <1>1, InsertEntries
<1>7. CacheTypes'
  BY <1>1, <1>3, <1>6 DEF CacheTypes
<1>8. Asking' /\ OpenVersions'
  BY <1>1 DEF Asking, OpenVersions, IsOpen, CacheTypes
<1>9. EntriesExact'
  BY <1>1, <1>4, <1>5, <1>6 DEF EntriesExact, CacheTypes
<1>10. VersionsPast' /\ OneText'
  <2>1. \A u \in Uris, n \in Versions, text \in Texts : InCache(u, n, text)' =>
          InCache(u, n, text) \/ (u = key.uri /\ n = key.version /\ text = a.text)
    BY <1>6 DEF InCache
  <2>2. \A u \in Uris, n \in Versions, text \in Texts : Known(u, n, text)' => Known(u, n, text)
    BY <1>1, <1>3, <1>4, <1>5, <2>1 DEF Known, InDocument, InRequest, IsOpen
  <2> QED
    BY <1>1, <2>2, NothingNew
<1> QED
  BY <1>1, <1>3, <1>7, <1>8, <1>9, <1>10 DEF a

-----------------------------------------------------------------------------
LEMMA IdleInv == CacheInv /\ UNCHANGED vars => CacheInv'
<1> SUFFICES ASSUME CacheInv, UNCHANGED vars PROVE CacheInv'
  OBVIOUS
<1>1. UNCHANGED <<open, versions, disk, seen, asking, answer, entries, generation, index, writing>>
  BY DEF vars, documents, indexing, cache, requests
<1>2. EntriesExact' /\ Asking' /\ generation' \in Nat /\ index' \in Nat
  BY <1>1 DEF CacheInv, EntriesExact, Asking, CacheTypes
<1> QED
  BY <1>1, <1>2, FewerEntries

LEMMA StepCache == ~Reopens /\ NoAliases /\ CacheInv /\ [Next]_vars => CacheInv'
  BY NotificationInv, PurgeInv, IndexInv, LookInv, ReadInv, ComputeInv, IdleInv DEF Next

\* The steps of the service: its texts are those the requests took.
Texted == [r \in Requests |-> seen[r].text]

LEMMA StepServes ==
  ~Reopens /\ NoAliases /\ CacheInv /\ [Next]_vars
    => [Service!Next]_<<Texted, index, answer>>
<1> SUFFICES ASSUME ~Reopens, NoAliases, CacheInv, [Next]_vars
             PROVE  [Service!Next]_<<Texted, index, answer>>
  OBVIOUS
<1>1. ASSUME NEW h \in Handlers, Notification(h) \/ InvalidateUri(h)
      PROVE  UNCHANGED <<Texted, index, answer>>
  BY <1>1 DEF Notification, DidOpen, DidChange, DidSave, DidClose, Notified, InvalidateUri, indexing,
              requests, Texted
<1>2. CASE Install \/ ClearAfterInstall \/ Preload \/ ClearAfterPreload
  <2>1. UNCHANGED <<Texted, answer>> /\ index' \in Nat
    BY <1>2 DEF Install, ClearAfterInstall, Preload, ClearAfterPreload, requests, Texted, CacheInv,
                CacheTypes
  <2> QED
    BY <2>1 DEF Service!Next, Service!Install, Texted
<1>3. ASSUME NEW r \in Requests, NEW u \in Uris, Look(r, u) PROVE Service!Next
  <2>1. PICK text \in Texts :
          \A q \in Requests : seen'[q].text = IF q = r THEN text ELSE seen[q].text
    BY <1>3, LookInv
  <2>2. Texted' = [Texted EXCEPT ![r] = text]
    BY <2>1 DEF Texted
  <2>3. answer' = [answer EXCEPT ![r] = None] /\ UNCHANGED index
    BY <1>3 DEF Look, indexing
  <2> QED
    BY <2>2, <2>3 DEF Service!Next, Service!Look, Texted
<1>4. ASSUME NEW r \in Requests, ReadCache(r) \/ Compute(r)
      PROVE  Service!Next \/ UNCHANGED <<Texted, index, answer>>
  <2>1. /\ UNCHANGED <<seen, index>> /\ seen[r].text # None
        /\ \/ UNCHANGED answer
           \/ answer' = [answer EXCEPT ![r] = [text |-> seen[r].text, index |-> index]]
    BY <1>4, ReadInv, ComputeInv
  <2> QED
    BY <2>1 DEF Service!Next, Service!Answer, Texted
<1>5. CASE UNCHANGED vars
  BY <1>5 DEF vars, indexing, requests, Texted
<1> QED
  BY <1>1, <1>2, <1>3, <1>4, <1>5 DEF Next

\* Hover and navigation are answered from the text the request took and the index installed
\* when it was answered, whatever documents, caches and index jobs do meanwhile
\* (navigation.rs, open_documents.rs), for any number of documents, texts and requests, as
\* long as documents have no aliases and are opened once.
THEOREM Invisible == ~Reopens /\ NoAliases /\ Spec => CacheIsInvisible
<1>1. Init => Service!Init
  BY DEF Init, Service!Init, NotAsked
<1>2. ASSUME ~Reopens, NoAliases PROVE Spec => Service!Spec
  <2>1. CacheInv /\ [Next]_vars => CacheInv'
    BY <1>2, StepCache
  <2>2. CacheInv /\ [Next]_vars => [Service!Next]_<<Texted, index, answer>>
    BY <1>2, StepServes
  <2> QED
    BY <1>1, <2>1, <2>2, InitCache, PTL DEF Spec, Service!Spec, Texted
<1> QED
  BY <1>2 DEF CacheIsInvisible

-----------------------------------------------------------------------------
(* Types, and the order of eviction beside the entries.                    *)

\* Each answer is in the order of eviction once, and nothing else is.
Ordered ==
  /\ order \in Seq(Key)
  /\ {order[i] : i \in DOMAIN order} = DOMAIN entries
  /\ \A i, j \in DOMAIN order : order[i] = order[j] => i = j
  /\ Len(order) <= Capacity

StateTypes ==
  /\ open \in [Uris -> Document \cup {NoDocument}] /\ versions \in [Uris -> Versions]
  /\ disk \in [Files -> Texts \cup {None}] /\ purging \in [Handlers -> Uris \cup {None}]
  /\ generation \in Nat /\ index \in Nat /\ writing \in BOOLEAN /\ clearing \in Nat
  /\ seen \in [Requests -> Taken \cup {NotAsked}]
  /\ asking \subseteq Requests /\ answer \in [Requests -> Answer \cup {None}]
  /\ Asking

Answers == \A k \in DOMAIN entries : entries[k] \in Answer

TypesInv == StateTypes /\ Ordered /\ Answers

LEMMA FirstNumbers == ASSUME NEW n \in Nat PROVE IsFiniteSet(1..n) /\ Cardinality(1..n) = n
BY FS_Interval

\* The places of a set are numbered without gaps.
LEMMA NthPlaces ==
  ASSUME NEW L \in Nat, NEW P \in SUBSET (1..L)
  PROVE  /\ Cardinality(P) \in Nat /\ Cardinality(P) <= L
         /\ \A n \in 1..Cardinality(P) : Nth(P, n) \in P
         /\ \A i \in P : \E n \in 1..Cardinality(P) : Nth(P, n) = i
         /\ \A m, n \in 1..Cardinality(P) : Nth(P, m) = Nth(P, n) => m = n
<1> DEFINE Upto(i) == {j \in P : j <= i}
           c == Cardinality(P)
           rank == [i \in P |-> Cardinality(Upto(i))]
<1>1. IsFiniteSet(1..L) /\ Cardinality(1..L) = L
  BY FirstNumbers
<1>2. IsFiniteSet(P) /\ c \in Nat /\ c <= L
  BY <1>1, FS_Subset, FS_CardinalityType
<1>3. \A i \in P : IsFiniteSet(Upto(i)) /\ Cardinality(Upto(i)) \in 1..c
  <2> SUFFICES ASSUME NEW i \in P PROVE IsFiniteSet(Upto(i)) /\ Cardinality(Upto(i)) \in 1..c
    OBVIOUS
  <2>1. Upto(i) \in SUBSET P /\ i \in Upto(i)
    OBVIOUS
  <2> HIDE DEF Upto
  <2>2. IsFiniteSet(Upto(i)) /\ Cardinality(Upto(i)) <= c
    BY <1>2, <2>1, FS_Subset
  <2>3. Cardinality(Upto(i)) \in Nat /\ Cardinality(Upto(i)) # 0
    BY <2>1, <2>2, FS_CardinalityType, FS_EmptySet
  <2> QED BY <1>2, <2>2, <2>3
<1>4. \A i, k \in P : Cardinality(Upto(i)) = Cardinality(Upto(k)) => i = k
  <2>1. ASSUME NEW i \in P, NEW k \in P, i < k, Cardinality(Upto(i)) = Cardinality(Upto(k)) PROVE FALSE
    <3>1. \A j \in P : j \in Int
      OBVIOUS
    <3>2. \A j \in P : j <= i => j <= k
      BY <2>1, <3>1
    <3>3. k <= k /\ ~(k <= i)
      BY <2>1, <3>1
    <3>4. Upto(i) \in SUBSET Upto(k) /\ k \in Upto(k) /\ k \notin Upto(i)
      BY <2>1, <3>2, <3>3, Zenon
    <3> HIDE DEF Upto
    <3> QED BY <1>3, <2>1, <3>4, FS_Subset
  <2> QED BY <2>1
<1>5. rank \in Injection(P, 1..c)
  <2>1. rank \in [P -> 1..c]
    BY <1>3
  <2>2. \A i, k \in P : rank[i] = rank[k] => i = k
    BY <1>4
  <2> HIDE DEF rank
  <2> QED BY <2>1, <2>2 DEF Injection, IsInjective
<1>6. \A n \in 1..c : \E i \in P : Cardinality(Upto(i)) = n
  <2>1. IsFiniteSet(1..c) /\ Cardinality(1..c) = c
    BY <1>2, FirstNumbers
  <2> HIDE DEF c
  <2>2. rank \in Surjection(P, 1..c)
    BY <1>5, <2>1, FS_Injection DEF c
  <2>3. \A n \in 1..c : \E i \in P : rank[i] = n
    BY <2>2 DEF Surjection
  <2> QED BY <2>3
<1>7. \A n \in 1..c : Nth(P, n) \in P /\ Cardinality(Upto(Nth(P, n))) = n
  BY <1>6 DEF Nth
<1> HIDE DEF Upto, c, rank
<1>8. \A i \in P : Nth(P, Cardinality(Upto(i))) = i
  BY <1>3, <1>4, <1>7
<1>9. \A m, n \in 1..c : Nth(P, m) = Nth(P, n) => m = n
  BY <1>7
<1>10. \A i \in P : \E n \in 1..c : Nth(P, n) = i
  BY <1>3, <1>8
<1> QED BY <1>2, <1>7, <1>9, <1>10 DEF c

\* What is purged leaves the order of the rest as it was.
LEMMA KeptOrdered ==
  ASSUME Ordered, NEW keys \in SUBSET DOMAIN entries, Kept(keys)
  PROVE  Ordered'
<1> DEFINE places == {i \in DOMAIN order : order[i] \in keys}
<1>1. /\ Len(order) \in Nat /\ DOMAIN order = 1..Len(order)
      /\ \A i \in DOMAIN order : order[i] \in Key
  BY DEF Ordered
<1>2. places \in SUBSET (1..Len(order))
  BY <1>1
<1>3. order' = [n \in 1..Cardinality(places) |-> order[Nth(places, n)]]
  BY DEF Kept
<1>4. \A k \in keys : \E i \in places : order[i] = k
  BY DEF Ordered
<1>5. \A i \in places : i \in DOMAIN order /\ order[i] \in keys
  OBVIOUS
<1>6. DOMAIN entries' = keys
  BY KeptEntries
<1> HIDE DEF places
<1>7. /\ Cardinality(places) \in Nat /\ Cardinality(places) <= Len(order)
      /\ \A n \in 1..Cardinality(places) : Nth(places, n) \in places
      /\ \A i \in places : \E n \in 1..Cardinality(places) : Nth(places, n) = i
      /\ \A m, n \in 1..Cardinality(places) : Nth(places, m) = Nth(places, n) => m = n
  BY <1>1, <1>2, NthPlaces
<1>8. /\ order' \in Seq(Key) /\ Len(order') = Cardinality(places)
      /\ DOMAIN order' = 1..Cardinality(places)
      /\ \A n \in DOMAIN order' : order'[n] = order[Nth(places, n)]
  <2>1. order' \in [1..Cardinality(places) -> Key]
    BY <1>1, <1>3, <1>5, <1>7
  <2> QED BY <1>3, <1>7, <2>1
<1>9. {order'[n] : n \in DOMAIN order'} = keys
  <2>1. \A n \in DOMAIN order' : order'[n] \in keys
    BY <1>5, <1>7, <1>8
  <2>2. \A k \in keys : \E n \in DOMAIN order' : order'[n] = k
    BY <1>4, <1>7, <1>8
  <2> QED BY <2>1, <2>2
<1>10. \A m, n \in DOMAIN order' : order'[m] = order'[n] => m = n
  BY <1>5, <1>7, <1>8 DEF Ordered
<1>11. Len(order') <= Capacity
  BY <1>1, <1>7, <1>8, NavigationBounds DEF Ordered
<1> QED BY <1>6, <1>8, <1>9, <1>10, <1>11 DEF Ordered

\* There are as many answers as keys in the order.
LEMMA OrderCounts ==
  ASSUME Ordered
  PROVE  IsFiniteSet(DOMAIN entries) /\ Cardinality(DOMAIN entries) = Len(order)
<1>1. Len(order) \in Nat /\ DOMAIN order = 1..Len(order)
  BY DEF Ordered
<1>2. IsFiniteSet(1..Len(order)) /\ Cardinality(1..Len(order)) = Len(order)
  BY <1>1, FirstNumbers
<1>3. order \in [1..Len(order) -> DOMAIN entries]
  BY <1>1 DEF Ordered
<1>4. order \in Surjection(1..Len(order), DOMAIN entries)
  BY <1>1, <1>3 DEF Ordered, Surjection
<1>5. order \in Injection(1..Len(order), DOMAIN entries)
  BY <1>1, <1>3 DEF Ordered, Injection, IsInjective
<1> QED BY <1>2, <1>4, <1>5, FS_Surjection

\* The oldest answer goes with its key.
LEMMA InsertOrdered ==
  ASSUME Ordered, NEW key \in Key, NEW a, Insert(key, a)
  PROVE  Ordered'
<1> DEFINE grown == Inserted(key, a)
           line == IF key \in DOMAIN entries THEN order ELSE Append(order, key)
<1>1. DOMAIN grown = DOMAIN entries \cup {key}
  BY DEF Inserted
<1>2. /\ Len(order) \in Nat /\ DOMAIN order = 1..Len(order) /\ Len(order) <= Capacity
      /\ Capacity \in Nat \ {0}
  BY NavigationBounds DEF Ordered
<1>3. /\ line \in Seq(Key) /\ {line[i] : i \in DOMAIN line} = DOMAIN grown
      /\ \A i, j \in DOMAIN line : line[i] = line[j] => i = j
      /\ Len(line) = Cardinality(DOMAIN grown) /\ Len(line) <= Capacity + 1
  <2>1. CASE key \in DOMAIN entries
    <3>1. line = order /\ DOMAIN grown = DOMAIN entries
      BY <1>1, <2>1
    <3>2. Cardinality(DOMAIN grown) = Len(order)
      BY <3>1, OrderCounts
    <3> HIDE DEF grown, line
    <3>3. Len(line) = Cardinality(DOMAIN grown) /\ Len(line) <= Capacity + 1
      BY <1>2, <3>1, <3>2
    <3> QED BY <3>1, <3>3 DEF Ordered
  <2>2. CASE key \notin DOMAIN entries
    <3>1. /\ line \in Seq(Key) /\ DOMAIN line = 1..(Len(order) + 1) /\ Len(line) = Len(order) + 1
          /\ \A i \in 1..Len(order) : line[i] = order[i]
          /\ line[Len(order) + 1] = key
      BY <1>2, <2>2 DEF Ordered
    <3>2. Cardinality(DOMAIN grown) = Len(order) + 1
      BY <1>1, <2>2, OrderCounts, FS_AddElement
    <3> HIDE DEF line
    <3>3. \A i \in DOMAIN line : line[i] \in DOMAIN grown
      BY <1>1, <1>2, <3>1 DEF Ordered
    <3>4. \A k \in DOMAIN grown : \E i \in DOMAIN line : line[i] = k
      <4>1. \A k \in DOMAIN entries : \E i \in DOMAIN order : order[i] = k
        BY DEF Ordered
      <4> HIDE DEF grown
      <4> QED BY <1>1, <1>2, <3>1, <4>1
    <3>5. {line[i] : i \in DOMAIN line} = DOMAIN grown
      BY <3>3, <3>4
    <3>6. \A i \in 1..Len(order) : line[i] # key
      BY <1>2, <2>2, <3>1 DEF Ordered
    <3>7. \A i, j \in DOMAIN line : line[i] = line[j] => i = j
      BY <1>2, <3>1, <3>6 DEF Ordered
    <3> QED BY <1>2, <3>1, <3>2, <3>5, <3>7
  <2> QED BY <2>1, <2>2
<1>4. \/ Cardinality(DOMAIN grown) <= Capacity /\ entries' = grown /\ order' = line
      \/ /\ ~(Cardinality(DOMAIN grown) <= Capacity)
         /\ entries' = [k \in DOMAIN grown \ {Head(line)} |-> grown[k]] /\ order' = Tail(line)
  BY DEF Insert
<1> HIDE DEF grown, line
<1>5. CASE Cardinality(DOMAIN grown) <= Capacity /\ entries' = grown /\ order' = line
  BY <1>3, <1>5 DEF Ordered
<1>6. CASE /\ ~(Cardinality(DOMAIN grown) <= Capacity)
           /\ entries' = [k \in DOMAIN grown \ {Head(line)} |-> grown[k]] /\ order' = Tail(line)
  <2>1. DOMAIN entries' = DOMAIN grown \ {line[1]}
    BY <1>2, <1>3, <1>6
  <2>2. Len(line) = Capacity + 1 /\ DOMAIN line = 1..(Capacity + 1)
    BY <1>2, <1>3, <1>6
  <2>3. /\ order' \in Seq(Key) /\ Len(order') = Capacity /\ DOMAIN order' = 1..Capacity
        /\ \A i \in 1..Capacity : order'[i] = line[i + 1]
    BY <1>2, <1>3, <1>6, <2>2
  <2>4. \A i, j \in DOMAIN order' : order'[i] = order'[j] => i = j
    <3> SUFFICES ASSUME NEW i \in 1..Capacity, NEW j \in 1..Capacity, order'[i] = order'[j] PROVE i = j
      BY <2>3
    <3>1. line[i + 1] = line[j + 1] /\ i + 1 \in DOMAIN line /\ j + 1 \in DOMAIN line
      BY <1>2, <2>2, <2>3
    <3>2. i + 1 = j + 1
      BY <1>3, <3>1
    <3> QED BY <1>2, <3>2
  <2>5. \A i \in DOMAIN order' : order'[i] \in DOMAIN entries'
    <3>1. \A i \in 1..Capacity : line[i + 1] \in DOMAIN grown /\ line[i + 1] # line[1]
      <4> SUFFICES ASSUME NEW i \in 1..Capacity PROVE line[i + 1] \in DOMAIN grown /\ line[i + 1] # line[1]
        OBVIOUS
      <4>1. i + 1 \in DOMAIN line /\ 1 \in DOMAIN line /\ i + 1 # 1
        BY <1>2, <2>2
      <4> QED BY <1>3, <4>1
    <3> QED BY <2>1, <2>3, <3>1
  <2>6. \A k \in DOMAIN entries' : \E i \in DOMAIN order' : order'[i] = k
    <3> SUFFICES ASSUME NEW k \in DOMAIN entries' PROVE \E i \in DOMAIN order' : order'[i] = k
      OBVIOUS
    <3>1. PICK j \in DOMAIN line : line[j] = k
      BY <1>3, <2>1
    <3>2. j # 1
      BY <2>1, <3>1
    <3>3. j - 1 \in 1..Capacity /\ j = (j - 1) + 1
      BY <1>2, <2>2, <3>2
    <3> QED BY <2>3, <3>1, <3>3
  <2>7. {order'[i] : i \in DOMAIN order'} = DOMAIN entries'
    BY <2>5, <2>6
  <2> QED BY <1>2, <2>3, <2>4, <2>7 DEF Ordered
<1> QED BY <1>4, <1>5, <1>6

LEMMA TypesEnough == TypesInv => TypeOK
<1> SUFFICES ASSUME TypesInv PROVE TypeOK
  OBVIOUS
<1>1. DOMAIN entries \subseteq Key
  BY DEF TypesInv, Ordered
<1>2. Len(order) = Cardinality(DOMAIN entries)
  BY OrderCounts DEF TypesInv
<1> QED BY <1>1, <1>2 DEF TypeOK, TypesInv, StateTypes, Ordered, Answers, Asking, Taken

LEMMA InitTypes == Init => TypesInv
<1> SUFFICES ASSUME Init PROVE TypesInv
  OBVIOUS
<1>1. StateTypes
  <2>1. /\ open \in [Uris -> Document \cup {NoDocument}] /\ versions \in [Uris -> Versions]
        /\ disk \in [Files -> Texts \cup {None}] /\ purging \in [Handlers -> Uris \cup {None}]
    BY NavigationBounds DEF Init, Versions
  <2>2. /\ generation \in Nat /\ index \in Nat /\ writing \in BOOLEAN /\ clearing \in Nat
        /\ asking = {}
    BY DEF Init
  <2>3. /\ seen \in [Requests -> Taken \cup {NotAsked}]
        /\ answer \in [Requests -> Answer \cup {None}]
    BY DEF Init
  <2> QED BY <2>1, <2>2, <2>3 DEF StateTypes, Asking
<1>2. Ordered /\ Answers
  <2>1. order = <<>> /\ entries = <<>>
    BY DEF Init
  <2>2. DOMAIN order = {} /\ DOMAIN entries = {} /\ Len(order) = 0 /\ order \in Seq(Key)
    BY <2>1
  <2> QED BY <2>2, NavigationBounds DEF Ordered, Answers
<1> QED BY <1>1, <1>2 DEF TypesInv

LEMMA StayOrdered == TypesInv /\ UNCHANGED cache /\ StateTypes' => TypesInv'
  BY DEF TypesInv, Ordered, Answers, cache

\* A document a request takes is one that the client or a file gave it.
LEMMA DocumentTypes ==
  ASSUME StateTypes, NEW u \in Uris, NEW document \in DocumentsForUri(u)
  PROVE  document.text \in Texts /\ document.version \in Versions
<1>1. \A v \in Uris : IsOpen(v) => open[v] \in Document
  BY DEF StateTypes, IsOpen
<1>2. CASE document = [text |-> disk[Physical[u]], version |-> 0] /\ disk[Physical[u]] # None
  BY <1>2, NavigationBounds DEF StateTypes, Files, Versions
<1>3. CASE \E v \in Uris : IsOpen(v) /\ document = open[v]
  BY <1>1, <1>3 DEF Document
<1> QED BY <1>2, <1>3 DEF DocumentsForUri, NewestUris, LiveUris

LEMMA NotificationTypes ==
  ASSUME TypesInv, NEW h \in Handlers, Notification(h)
  PROVE  TypesInv'
<1>1. PICK v \in Uris :
        \/ \E text \in Texts : DidOpen(h, v, text) \/ DidChange(h, v, text)
        \/ DidSave(h, v) \/ DidClose(h, v)
  BY DEF Notification
<1>2. UNCHANGED <<indexing, cache, requests>> /\ purging' = [purging EXCEPT ![h] = v]
  BY <1>1 DEF DidOpen, DidChange, DidSave, DidClose, Notified
<1>3. /\ open' \in [Uris -> Document \cup {NoDocument}] /\ versions' \in [Uris -> Versions]
      /\ disk' \in [Files -> Texts \cup {None}]
  <2>1. StateTypes
    BY DEF TypesInv
  <2>2. versions[v] \in Nat /\ versions[v] <= MaxVersion /\ 1 \in Versions
    BY <2>1, NavigationBounds DEF StateTypes, Versions
  <2>3. CASE \E text \in Texts : DidOpen(h, v, text)
    BY <2>1, <2>2, <2>3 DEF DidOpen, Notified, StateTypes, Document
  <2>4. CASE \E text \in Texts : DidChange(h, v, text)
    <3>1. versions[v] + 1 \in Versions
      BY <2>2, <2>4, NavigationBounds DEF DidChange, Versions
    <3>2. versions' = [versions EXCEPT ![v] = versions[v] + 1] /\ UNCHANGED disk
      BY <2>4 DEF DidChange
    <3>3. versions' \in [Uris -> Versions] /\ versions'[v] = versions[v] + 1
      BY <2>1, <3>1, <3>2 DEF StateTypes
    <3> QED BY <2>1, <2>4, <3>1, <3>2, <3>3 DEF DidChange, Notified, StateTypes, Document
  <2>5. CASE DidSave(h, v) \/ DidClose(h, v)
    BY <2>1, <2>5 DEF DidSave, DidClose, Notified, StateTypes, IsOpen, Document
  <2> QED BY <1>1, <2>3, <2>4, <2>5
<1>4. StateTypes'
  BY <1>2, <1>3 DEF TypesInv, StateTypes, Asking, indexing, requests
<1> QED BY <1>2, <1>4, StayOrdered

LEMMA PurgeTypes ==
  ASSUME TypesInv, NEW keys \in SUBSET DOMAIN entries, Kept(keys), StateTypes'
  PROVE  TypesInv'
<1>1. Ordered'
  BY KeptOrdered DEF TypesInv
<1>2. Answers'
  BY KeptEntries DEF TypesInv, Answers
<1> QED BY <1>1, <1>2 DEF TypesInv

LEMMA StepTypes == TypesInv /\ [Next]_vars => TypesInv'
<1> SUFFICES ASSUME TypesInv, [Next]_vars PROVE TypesInv'
  OBVIOUS
<1>1. StateTypes
  BY DEF TypesInv
<1>2. ASSUME NEW h \in Handlers, InvalidateUri(h) PROVE TypesInv'
  <2>1. StateTypes'
    BY <1>1, <1>2 DEF InvalidateUri, StateTypes, Asking, indexing, requests
  <2> QED BY <1>2, <2>1, PurgeTypes DEF InvalidateUri
<1>3. CASE Install \/ Preload
  <2>1. StateTypes' /\ UNCHANGED cache
    <3>1. UNCHANGED <<open, versions, disk, purging, seen, asking, answer, cache>>
      BY <1>3 DEF Install, Preload, documents, requests
    <3>2. generation \in Nat /\ index \in Nat /\ clearing \in Nat
      BY <1>1 DEF StateTypes
    <3>3. generation' \in Nat /\ index' \in Nat /\ clearing' \in Nat
      BY <1>3, <3>2 DEF Install, Preload
    <3>4. asking = {} /\ (writing' = writing \/ writing' = TRUE)
      BY <1>3, Zenon DEF Install, Preload, CanWrite
    <3>5. writing' \in BOOLEAN /\ Asking'
      BY <1>1, <3>1, <3>4, Zenon DEF StateTypes, Asking
    <3> QED BY <1>1, <3>1, <3>3, <3>5, Zenon DEF StateTypes
  <2> QED BY <2>1, StayOrdered
<1>4. CASE ClearAfterInstall \/ ClearAfterPreload
  <2>1. StateTypes'
    <3>1. UNCHANGED <<open, versions, disk, purging, generation, index, seen, asking, answer>>
      BY <1>4 DEF ClearAfterInstall, ClearAfterPreload, documents, requests
    <3>2. clearing' \in Nat /\ (writing' = writing \/ writing' = FALSE)
      BY <1>1, <1>4 DEF ClearAfterInstall, ClearAfterPreload, StateTypes
    <3>3. asking' = asking /\ seen' = seen /\ answer' = answer
      BY <3>1
    <3>4. Asking'
      <4>1. Asking
        BY <1>1 DEF StateTypes
      <4>2. \A r \in asking' : seen'[r] # NotAsked /\ answer'[r] = None
        BY <3>3, <4>1 DEF Asking
      <4>3. writing' => asking = {}
        BY <3>2, <4>1, Zenon DEF Asking
      <4> QED BY <3>3, <4>2, <4>3 DEF Asking
    <3>5. writing' \in BOOLEAN
      BY <1>1, <3>2, Zenon DEF StateTypes
    <3> QED BY <1>1, <3>1, <3>2, <3>4, <3>5, Zenon DEF StateTypes
  <2> QED BY <1>4, <2>1, PurgeTypes DEF ClearAfterInstall, ClearAfterPreload
<1>5. ASSUME NEW r \in Requests, NEW u \in Uris, Look(r, u) PROVE TypesInv'
  <2>1. PICK document \in DocumentsForUri(u) :
          seen' = [seen EXCEPT ![r] = [uri |-> u, text |-> document.text, version |-> document.version]]
    BY <1>5 DEF Look
  <2>2. [uri |-> u, text |-> document.text, version |-> document.version] \in Taken
    BY <1>1, DocumentTypes DEF Taken
  <2>3. r \notin asking /\ UNCHANGED <<documents, indexing, cache, asking>>
        /\ answer' = [answer EXCEPT ![r] = None]
    BY <1>1, <1>5 DEF Look, Pending, StateTypes, Asking
  <2>4. StateTypes'
    BY <1>1, <2>1, <2>2, <2>3 DEF StateTypes, Asking, documents, indexing
  <2> QED BY <2>3, <2>4, StayOrdered
<1>6. ASSUME NEW r \in Requests, ReadCache(r) PROVE TypesInv'
  <2> DEFINE key == QueryCacheKey(seen[r])
  <2>1. /\ Pending(r) /\ r \notin asking /\ ~writing /\ UNCHANGED <<documents, indexing, cache, seen>>
        /\ \/ key \in DOMAIN entries /\ answer' = [answer EXCEPT ![r] = entries[key]] /\ UNCHANGED asking
           \/ asking' = asking \cup {r} /\ UNCHANGED answer
    BY <1>6 DEF ReadCache
  <2> HIDE DEF key
  <2>2. key \in DOMAIN entries => entries[key] \in Answer
    BY DEF TypesInv, Answers
  <2>3. StateTypes'
    BY <1>1, <2>1, <2>2 DEF StateTypes, Asking, Pending, documents, indexing
  <2> QED BY <2>1, <2>3, StayOrdered
<1>7. ASSUME NEW r \in Requests, Compute(r) PROVE TypesInv'
  <2> DEFINE key == QueryCacheKey(seen[r])
             a == [text |-> seen[r].text, index |-> index]
  <2>1. /\ r \in asking /\ Insert(key, a) /\ answer' = [answer EXCEPT ![r] = a] /\ asking' = asking \ {r}
        /\ UNCHANGED <<documents, indexing, seen>>
    BY <1>7 DEF Compute
  <2>2. seen[r] \in Taken
    BY <1>1, <2>1 DEF StateTypes, Asking
  <2>3. key \in Key /\ a \in Answer
    BY <1>1, <2>2 DEF StateTypes, QueryCacheKey, Key, Answer, Taken
  <2> HIDE DEF key, a
  <2>4. StateTypes'
    BY <1>1, <2>1, <2>3 DEF StateTypes, Asking, documents, indexing
  <2>5. Ordered'
    BY <2>1, <2>3, InsertOrdered DEF TypesInv
  <2>6. Answers'
    BY <2>1, <2>3, InsertEntries DEF TypesInv, Answers
  <2> QED BY <2>4, <2>5, <2>6 DEF TypesInv
<1>8. CASE UNCHANGED vars
  <2>1. StateTypes'
    BY <1>1, <1>8 DEF vars, documents, indexing, requests, StateTypes, Asking
  <2> QED BY <1>8, <2>1, StayOrdered DEF vars
<1> QED BY <1>2, <1>3, <1>4, <1>5, <1>6, <1>7, <1>8, NotificationTypes DEF Next

(* State stays of its types, requests compute only while no preload        *)
(* writes, and the cache fits: its order of eviction names each answer     *)
(* once and nothing else, through insertions, purges and clears.           *)
THEOREM TypeCorrect == Spec => []TypeOK
<1> QED BY InitTypes, StepTypes, TypesEnough, PTL DEF Spec
=============================================================================

------------------------- MODULE CellImages_proofs -------------------------
(***************************************************************************)
(* Machine-checked proofs about CellImages, for every value of its         *)
(* constants: any number of cells, users, images and loads.                *)
(***************************************************************************)
EXTENDS CellImages, FiniteSetTheorems, SequenceTheorems, TLAPS

-----------------------------------------------------------------------------
(* The inductive invariant.                                                *)

InBlock(l) == \E i \in 1..Len(main) : l \in main[i].loads

\* Has the download not read its handlers yet?
Active(d) == downloads[d].stage \in {"waiting", "running", "decoding"}

\* A load that may still set an image is the one registered with its view, and is
\* for the URL of the present user of the cell, unless the cell kept it.
Right ==
  \A l \in 1..Len(loads) :
    loads[l].stage # "done" /\ ~ loads[l].cancelled =>
      LET c == loads[l].cell IN
      /\ load[c] = l
      /\ user[c] \in User
      /\ IF url[user[c]] = None THEN c \in KeepsImage ELSE loads[l].url = url[user[c]]

\* A cell that was never configured shows nothing.
Shown == \A c \in Cell : image[c] # None => user[c] \in User

StageOf(of) == IF of = "query" THEN "found" ELSE "download"

\* The loads of a block are in the stage the block will end.
BlockStage ==
  \A i \in 1..Len(main) : \A l \in main[i].loads :
    l \in 1..Len(loads) /\ loads[l].stage = StageOf(main[i].of)

\* No load is in two blocks.
BlocksDisjoint ==
  \A i, j \in 1..Len(main) : i # j => main[i].loads \cap main[j].loads = {}

\* A handler of a download that has not read its handlers is in no block yet; one
\* that is still there when they have been read is taken care of, or came too late.
HandlerStage ==
  \A d \in 1..Len(downloads) : \A l \in downloads[d].handlers :
    /\ l \in 1..Len(loads)
    /\ loads[l].stage \in {"download", "done"}
    /\ Active(d) => loads[l].stage = "download" /\ ~ InBlock(l)
    /\ downloads[d].stage = "called" =>
         loads[l].stage = "done" \/ loads[l].cancelled \/ InBlock(l) \/ l \in late

\* No load is to be called by two downloads.
HandlersDisjoint ==
  \A d, e \in 1..Len(downloads) :
    d # e /\ Active(d) /\ Active(e) => downloads[d].handlers \cap downloads[e].handlers = {}

\* The loads that have had their chance of a download.
Used == {l \in 1..Len(loads) : loads[l].stage \in {"download", "done"}}

\* Each download was made by a load of its own.
Counted == Len(downloads) <= Cardinality(Used)

Safe ==
  /\ Right /\ Shown /\ NoForeignImage
  /\ BlockStage /\ BlocksDisjoint
  /\ HandlerStage /\ HandlersDisjoint
  /\ OnlyLateStranded
  /\ Counted

-----------------------------------------------------------------------------
(* What the helpers of the actions do.                                     *)

\* The sequences of a state that has its types.
LEMMA Sequences ==
  ASSUME TypeOK
  PROVE  /\ Len(loads) \in Nat /\ DOMAIN loads = 1..Len(loads)
         /\ \A l \in 1..Len(loads) : loads[l] \in LoadState
         /\ Len(downloads) \in Nat /\ DOMAIN downloads = 1..Len(downloads)
         /\ \A d \in 1..Len(downloads) : downloads[d] \in DownloadState
         /\ Len(main) \in Nat
         /\ \A i \in 1..Len(main) : main[i] \in Block
<1>1. loads \in Seq(LoadState) /\ downloads \in Seq(DownloadState) /\ main \in Seq(Block)
  BY DEF TypeOK
<1> QED  BY <1>1, LenProperties, ElementOfSeq

\* A stopped download has no handlers, and goes on or finishes.
LEMMA Stopping ==
  ASSUME NEW d \in DownloadState
  PROVE  /\ Stopped(d) \in DownloadState
         /\ Stopped(d).url = d.url
         /\ Stopped(d).handlers = {}
         /\ Stopped(d).stage \in {d.stage, "finished"}
<1>1. CASE d.stage = "finished"
  <2>1. Stopped(d) = [d EXCEPT !.handlers = {}]
    BY <1>1 DEF Stopped
  <2> QED  BY <2>1 DEF DownloadState
<1>2. CASE d.stage = "running"
  <2>1. Stopped(d) = [d EXCEPT !.handlers = {}, !.cancelled = TRUE, !.stage = "finished"]
    BY <1>2 DEF Stopped
  <2> QED  BY <2>1 DEF DownloadState
<1>3. CASE d.stage # "finished" /\ d.stage # "running"
  <2>1. Stopped(d) = [d EXCEPT !.handlers = {}, !.cancelled = TRUE, !.stage = d.stage]
    BY <1>3 DEF Stopped
  <2> QED  BY <2>1 DEF DownloadState
<1> QED  BY <1>1, <1>2, <1>3

\* A download one load leaves either goes on, with all others that wait for it, or
\* is empty because no other waited.
LEMMA Leaving ==
  ASSUME TypeOK, NEW l \in 0..Len(loads)
  PROVE  /\ DownloadsWithout(l) \in Seq(DownloadState)
         /\ Len(DownloadsWithout(l)) = Len(downloads)
         /\ \A d \in 1..Len(downloads) :
              LET e == DownloadsWithout(l)[d] IN
              /\ e.url = downloads[d].url
              /\ e.handlers \subseteq downloads[d].handlers
              /\ e.stage = "finished" => e.handlers = {}
              /\ \/ /\ e.stage = downloads[d].stage
                    /\ e.cancelled = downloads[d].cancelled
                    /\ downloads[d].handlers \ {l} \subseteq e.handlers
                 \/ /\ e.stage \in {downloads[d].stage, "finished"}
                    /\ downloads[d].handlers \subseteq {l}
                    /\ e.handlers = {}
<1> DEFINE W == DownloadsWithout(l)
<1>1. DOMAIN W = 1..Len(downloads)
  BY Sequences DEF DownloadsWithout
<1>2. \A d \in 1..Len(downloads) :
        /\ W[d] \in DownloadState
        /\ W[d].url = downloads[d].url
        /\ W[d].handlers \subseteq downloads[d].handlers
        /\ W[d].stage = "finished" => W[d].handlers = {}
        /\ \/ /\ W[d].stage = downloads[d].stage
              /\ W[d].cancelled = downloads[d].cancelled
              /\ downloads[d].handlers \ {l} \subseteq W[d].handlers
           \/ /\ W[d].stage \in {downloads[d].stage, "finished"}
              /\ downloads[d].handlers \subseteq {l}
              /\ W[d].handlers = {}
  <2> TAKE d \in 1..Len(downloads)
  <2>1. /\ downloads[d] \in DownloadState
        /\ downloads[d].stage = "finished" => downloads[d].handlers = {}
    BY Sequences DEF TypeOK
  <2>2. CASE d # Named(l)
    <3>1. W[d] = downloads[d]
      BY <2>2, Sequences DEF DownloadsWithout
    <3> QED  BY <2>1, <3>1
  <2>3. CASE d = Named(l) /\ downloads[d].handlers \ {l} = {}
    <3>1. W[d] = Stopped(downloads[d])
      BY <2>3, Sequences DEF DownloadsWithout
    <3> HIDE DEF W
    <3> QED  BY <2>1, <2>3, <3>1, Stopping
  <2>4. CASE d = Named(l) /\ downloads[d].handlers \ {l} # {}
    <3>1. W[d] = [downloads[d] EXCEPT !.handlers = downloads[d].handlers \ {l}]
      BY <2>4, Sequences DEF DownloadsWithout
    <3> QED  BY <2>1, <2>4, <3>1 DEF DownloadState
  <2> QED  BY <2>2, <2>3, <2>4
<1>3. W \in [1..Len(downloads) -> DownloadState]
  BY <1>1, <1>2, Sequences DEF DownloadsWithout
<1>4. W \in Seq(DownloadState) /\ Len(W) = Len(downloads)
  BY <1>3, Sequences
<1> QED  BY <1>2, <1>4

\* A URL keeps its download or has none.
LEMMA LeavingUrl ==
  ASSUME TypeOK, NEW l \in 0..Len(loads)
  PROVE  /\ ByUrlWithout(l) \in [Url -> 0..Len(downloads)]
         /\ \A u \in Url : ByUrlWithout(l)[u] \in {0, byUrl[u]}
<1>1. byUrl \in [Url -> 0..Len(downloads)] /\ Len(downloads) \in Nat
  BY Sequences DEF TypeOK
<1>2. ByUrlWithout(l) = byUrl \/ ByUrlWithout(l) = [byUrl EXCEPT ![loads[l].url] = 0]
  BY DEF ByUrlWithout
<1> QED  BY <1>1, <1>2

\* Only a load that has not ended is cancelled, and nothing else changes.
LEMMA Cancelling ==
  ASSUME TypeOK, NEW l \in 0..Len(loads)
  PROVE  /\ LoadsWithout(l) \in Seq(LoadState)
         /\ Len(LoadsWithout(l)) = Len(loads)
         /\ \A k \in 1..Len(loads) :
              LET e == LoadsWithout(l)[k] IN
              /\ e.cell = loads[k].cell /\ e.url = loads[k].url /\ e.stage = loads[k].stage
              /\ e.cancelled = (loads[k].cancelled \/ (k = l /\ loads[k].stage # "done"))
<1>1. CASE l # 0 /\ loads[l].stage # "done"
  <2>1. l \in 1..Len(loads) /\ loads \in Seq(LoadState) /\ loads[l] \in LoadState
    BY <1>1, Sequences DEF TypeOK
  <2> DEFINE e == [loads[l] EXCEPT !.cancelled = TRUE]
  <2>2. /\ e \in LoadState
        /\ e.cell = loads[l].cell /\ e.url = loads[l].url /\ e.stage = loads[l].stage
        /\ e.cancelled = TRUE
    BY <2>1 DEF LoadState
  <2>3. LoadsWithout(l) = [loads EXCEPT ![l] = e]
    BY <1>1 DEF LoadsWithout
  <2> HIDE DEF e
  <2>4. /\ LoadsWithout(l) \in Seq(LoadState)
        /\ Len(LoadsWithout(l)) = Len(loads)
        /\ \A k \in 1..Len(loads) : LoadsWithout(l)[k] = IF k = l THEN e ELSE loads[k]
    BY <2>1, <2>2, <2>3, ExceptSeq
  <2>5. \A k \in 1..Len(loads) : loads[k].cancelled \in BOOLEAN
    BY Sequences DEF LoadState
  <2> QED  BY <1>1, <2>2, <2>4, <2>5
<1>2. CASE ~ (l # 0 /\ loads[l].stage # "done")
  <2>1. LoadsWithout(l) = loads
    BY <1>2 DEF LoadsWithout
  <2>2. \A k \in 1..Len(loads) : ~ (k = l /\ loads[k].stage # "done")
    BY <1>2, Sequences
  <2>3. \A k \in 1..Len(loads) : loads[k].cancelled \in BOOLEAN
    BY Sequences DEF LoadState
  <2> QED  BY <2>1, <2>2, <2>3 DEF TypeOK
<1> QED  BY <1>1, <1>2

\* The loads of a block have ended, and nothing else changes.
LEMMA Ending ==
  ASSUME TypeOK, NEW S
  PROVE  /\ Ended(S) \in Seq(LoadState)
         /\ Len(Ended(S)) = Len(loads)
         /\ \A k \in 1..Len(loads) :
              LET e == Ended(S)[k] IN
              /\ e.cell = loads[k].cell /\ e.url = loads[k].url
              /\ e.cancelled = loads[k].cancelled
              /\ e.stage = IF k \in S THEN "done" ELSE loads[k].stage
<1> DEFINE E == Ended(S)
<1>1. \A k \in 1..Len(loads) :
        /\ E[k] \in LoadState
        /\ E[k].cell = loads[k].cell /\ E[k].url = loads[k].url
        /\ E[k].cancelled = loads[k].cancelled
        /\ E[k].stage = IF k \in S THEN "done" ELSE loads[k].stage
  <2> TAKE k \in 1..Len(loads)
  <2>1. loads[k] \in LoadState
    BY Sequences
  <2>2. E[k] = IF k \in S THEN [loads[k] EXCEPT !.stage = "done"] ELSE loads[k]
    BY Sequences DEF Ended
  <2> QED  BY <2>1, <2>2 DEF LoadState
<1>2. E \in [1..Len(loads) -> LoadState]
  BY <1>1, Sequences DEF Ended
<1>3. E \in Seq(LoadState) /\ Len(E) = Len(loads)
  BY <1>2, Sequences
<1> QED  BY <1>1, <1>3

\* The first block leaves the queue of the main thread.
LEMMA Popped ==
  ASSUME TypeOK, main # << >>, main' = Tail(main)
  PROVE  /\ Head(main) = main[1] /\ Head(main) \in Block /\ 1 \in 1..Len(main)
         /\ main' \in Seq(Block)
         /\ Len(main') = Len(main) - 1
         /\ \A i \in 1..Len(main') : i + 1 \in 1..Len(main) /\ main'[i] = main[i + 1]
         /\ \A l : InBlock(l) => l \in Head(main).loads \/ InBlock(l)'
         /\ \A l : InBlock(l)' => InBlock(l)
<1>1. main \in Seq(Block) /\ Len(main) \in Nat \ {0}
  BY EmptySeq DEF TypeOK
<1>2. Head(main) = main[1] /\ Head(main) \in Block /\ 1 \in 1..Len(main)
  BY <1>1, HeadTailProperties
<1>3. /\ main' \in Seq(Block)
      /\ Len(main') = Len(main) - 1
      /\ \A i \in 1..Len(main') : main'[i] = main[i + 1]
  BY <1>1, HeadTailProperties
<1>4. \A i \in 1..Len(main') : i + 1 \in 1..Len(main)
  BY <1>1, <1>3
<1>5. \A i \in 1..Len(main) : i = 1 \/ (i - 1 \in 1..Len(main') /\ main[i] = main'[i - 1])
  BY <1>1, <1>3
<1>6. \A l : InBlock(l) => l \in Head(main).loads \/ InBlock(l)'
  BY <1>2, <1>5 DEF InBlock
<1>7. \A l : InBlock(l)' => InBlock(l)
  BY <1>3, <1>4 DEF InBlock
<1> QED  BY <1>2, <1>3, <1>4, <1>6, <1>7

\* A block joins the queue of the main thread.
LEMMA Pushed ==
  ASSUME TypeOK, NEW b \in Block, main' = Append(main, b)
  PROVE  /\ main' \in Seq(Block)
         /\ Len(main') = Len(main) + 1
         /\ \A i \in 1..Len(main') : (i \in 1..Len(main) /\ main'[i] = main[i])
                                      \/ (i = Len(main) + 1 /\ main'[i] = b)
         /\ \A l : InBlock(l)' <=> InBlock(l) \/ l \in b.loads
<1>1. main \in Seq(Block) /\ Len(main) \in Nat
  BY Sequences DEF TypeOK
<1>2. /\ main' \in Seq(Block)
      /\ Len(main') = Len(main) + 1
      /\ \A i \in 1..Len(main) : main'[i] = main[i]
      /\ main'[Len(main) + 1] = b
  BY <1>1, AppendProperties
<1>3. \A i \in 1..Len(main') : i \in 1..Len(main) \/ i = Len(main) + 1
  BY <1>1, <1>2
<1>4. \A l : InBlock(l)' <=> InBlock(l) \/ l \in b.loads
  BY <1>1, <1>2, <1>3 DEF InBlock
<1> QED  BY <1>2, <1>3, <1>4

\* The counted loads stay counted.
LEMMA UsedGrows ==
  ASSUME Len(loads) \in Nat, Len(loads)' \in Nat, Len(loads) <= Len(loads)',
         \A l \in 1..Len(loads) : loads[l].stage \in {"download", "done"}
                                  => loads'[l].stage \in {"download", "done"}
  PROVE  /\ IsFiniteSet(Used) /\ IsFiniteSet(Used')
         /\ Used \subseteq Used'
         /\ Cardinality(Used) \in Nat /\ Cardinality(Used') \in Nat
         /\ Cardinality(Used) <= Cardinality(Used')
         /\ Cardinality(Used') <= Len(loads)'
<1>1. Used \subseteq Used'
  BY DEF Used
<1>2. Used' \subseteq 1..Len(loads)'
  BY DEF Used
<1>3. IsFiniteSet(1..Len(loads)') /\ Cardinality(1..Len(loads)') = Len(loads)'
  <2>1. \A n \in Nat : IsFiniteSet(1..n) /\ Cardinality(1..n) = n
    <3> TAKE n \in Nat
    <3>1. 1 \in Int /\ n \in Int
      OBVIOUS
    <3>2. IsFiniteSet(1..n) /\ Cardinality(1..n) = IF 1 > n THEN 0 ELSE n - 1 + 1
      BY <3>1, FS_Interval, Zenon
    <3> QED  BY <3>2
  <2> QED  BY <2>1
<1>4. IsFiniteSet(Used') /\ Cardinality(Used') <= Len(loads)'
  BY <1>2, <1>3, FS_Subset
<1>5. IsFiniteSet(Used) /\ Cardinality(Used) <= Cardinality(Used')
  BY <1>1, <1>4, FS_Subset
<1> QED  BY <1>1, <1>4, <1>5, FS_CardinalityType

-----------------------------------------------------------------------------
(* Steps that leave the main queue alone: all configurations of cells, and the
   steps of a download but one.                                             *)

\* What such a step does to a load that is there: it may cancel it, or drop its
\* query.
KeptLoad(k) ==
  /\ \/ loads'[k].stage = loads[k].stage
     \/ loads[k].stage = "query" /\ loads'[k].stage = "done"
  /\ loads[k].cancelled => loads'[k].cancelled

\* What it does to a download: no handler joins, and none that is still wanted is
\* dropped unless it was called or came too late.
KeptDownload(d) ==
  /\ downloads'[d].handlers \subseteq downloads[d].handlers
  /\ Active(d)' => Active(d)
  /\ downloads'[d].stage = "called" => downloads[d].stage = "called"
  /\ \A l \in downloads[d].handlers :
       /\ loads[l].stage = "download"
       /\ ~ loads'[l].cancelled
       /\ ~ downloads[d].cancelled
       => \/ l \in downloads'[d].handlers /\ ~ downloads'[d].cancelled
          \/ InBlock(l) \/ l \in late

\* Such a step keeps what is known of blocks and handlers.
LEMMA Kept ==
  ASSUME TypeOK, Safe,
         UNCHANGED <<main, late>>,
         Len(loads)' \in Nat, Len(loads) <= Len(loads)',
         \A k \in 1..Len(loads) : KeptLoad(k),
         \A k \in 1..Len(loads)' :
           k \notin 1..Len(loads) => loads'[k].stage \in {"query", "done"},
         Len(downloads)' = Len(downloads),
         \A d \in 1..Len(downloads) : KeptDownload(d)
  PROVE  /\ BlockStage' /\ BlocksDisjoint' /\ HandlerStage' /\ HandlersDisjoint'
         /\ OnlyLateStranded' /\ Counted'
         /\ Len(downloads)' <= Len(loads)'
<1>1. /\ Len(loads) \in Nat /\ Len(downloads) \in Nat
      /\ \A k \in 1..Len(loads) : k \in 1..Len(loads)'
  BY Sequences
<1>2. \A l : InBlock(l)' <=> InBlock(l)
  BY DEF InBlock
<1>3. BlockStage'
  <2> SUFFICES ASSUME NEW i \in 1..Len(main), NEW l \in main[i].loads
               PROVE  l \in 1..Len(loads)' /\ loads'[l].stage = StageOf(main[i].of)
    BY DEF BlockStage, StageOf
  <2>1. l \in 1..Len(loads) /\ loads[l].stage = StageOf(main[i].of)
    BY DEF Safe, BlockStage
  <2>2. KeptLoad(l)
    BY <2>1
  <2> QED  BY <1>1, <2>1, <2>2 DEF KeptLoad, StageOf
<1>4. BlocksDisjoint'
  BY DEF Safe, BlocksDisjoint
<1>5. HandlerStage'
  <2> SUFFICES ASSUME NEW d \in 1..Len(downloads), NEW l \in downloads'[d].handlers
               PROVE  /\ l \in 1..Len(loads)'
                      /\ loads'[l].stage \in {"download", "done"}
                      /\ Active(d)' => loads'[l].stage = "download" /\ ~ InBlock(l)'
                      /\ downloads'[d].stage = "called" =>
                           loads'[l].stage = "done" \/ loads'[l].cancelled
                           \/ InBlock(l)' \/ l \in late'
    BY DEF HandlerStage
  <2>1. KeptDownload(d)
    OBVIOUS
  <2>2. l \in downloads[d].handlers
    BY <2>1 DEF KeptDownload
  <2>3. /\ l \in 1..Len(loads)
        /\ loads[l].stage \in {"download", "done"}
        /\ Active(d) => loads[l].stage = "download" /\ ~ InBlock(l)
        /\ downloads[d].stage = "called" =>
             loads[l].stage = "done" \/ loads[l].cancelled \/ InBlock(l) \/ l \in late
    BY <2>2 DEF Safe, HandlerStage
  <2>4. KeptLoad(l)
    BY <2>3
  <2> QED  BY <1>1, <1>2, <2>1, <2>3, <2>4 DEF KeptDownload, KeptLoad
<1>6. HandlersDisjoint'
  <2> SUFFICES ASSUME NEW d \in 1..Len(downloads), NEW e \in 1..Len(downloads),
                      d # e, Active(d)', Active(e)'
               PROVE  downloads'[d].handlers \cap downloads'[e].handlers = {}
    BY DEF HandlersDisjoint
  <2>1. KeptDownload(d) /\ KeptDownload(e)
    OBVIOUS
  <2> QED  BY <2>1 DEF KeptDownload, Safe, HandlersDisjoint
<1>7. OnlyLateStranded'
  <2> SUFFICES ASSUME NEW l \in 1..Len(loads)', loads'[l].stage = "download",
                      ~ loads'[l].cancelled, l \notin late
               PROVE  Awaited(l)'
    BY DEF OnlyLateStranded, Stranded
  <2>1. l \in 1..Len(loads)
    OBVIOUS
  <2>2. KeptLoad(l)
    BY <2>1
  <2>3. loads[l].stage = "download" /\ ~ loads[l].cancelled
    BY <2>2 DEF KeptLoad
  <2>4. Awaited(l)
    BY <2>1, <2>3 DEF Safe, OnlyLateStranded, Stranded
  <2>5. CASE InBlock(l)
    BY <2>5, <1>2 DEF InBlock, Awaited
  <2>6. CASE \E d \in 1..Len(downloads) :
               l \in downloads[d].handlers /\ ~ downloads[d].cancelled
    <3>1. PICK d \in 1..Len(downloads) :
                 l \in downloads[d].handlers /\ ~ downloads[d].cancelled
      BY <2>6
    <3>2. KeptDownload(d)
      OBVIOUS
    <3>3. \/ l \in downloads'[d].handlers /\ ~ downloads'[d].cancelled
          \/ InBlock(l)
      BY <2>3, <3>1, <3>2 DEF KeptDownload
    <3> QED  BY <2>5, <3>3 DEF Awaited
  <2> QED  BY <2>4, <2>5, <2>6 DEF Awaited, InBlock
<1>8. /\ Cardinality(Used) \in Nat /\ Cardinality(Used') \in Nat
      /\ Cardinality(Used) <= Cardinality(Used')
      /\ Cardinality(Used') <= Len(loads)'
  BY <1>1, UsedGrows DEF KeptLoad
<1>9. Counted' /\ Len(downloads)' <= Len(loads)'
  <2>1. Len(downloads) <= Cardinality(Used)
    BY DEF Safe, Counted
  <2>2. Len(downloads)' <= Cardinality(Used')
    BY <1>1, <1>8, <2>1
  <2> QED  BY <1>1, <1>8, <2>2 DEF Counted
<1> QED  BY <1>3, <1>4, <1>5, <1>6, <1>7, <1>9

\* The cells of a step that only advances downloads.
LEMMA CellsKept ==
  ASSUME Safe, UNCHANGED <<user, image, load, loads>>
  PROVE  Right' /\ Shown' /\ NoForeignImage'
BY DEF Safe, Right, Shown, NoForeignImage

\* A step in which one download d advances to e.
LEMMA Advance ==
  ASSUME TypeOK, Safe, UNCHANGED <<cellVars, loads, cacheVars, main, late>>,
         NEW d \in 1..Len(downloads), NEW e \in DownloadState,
         downloads' = [downloads EXCEPT ![d] = e],
         e.url = downloads[d].url,
         e.handlers \subseteq downloads[d].handlers,
         e.stage = "finished" => e.handlers = {},
         e.stage \in {"waiting", "running", "decoding"} => Active(d),
         e.stage = "called" => downloads[d].stage = "called",
         \A l \in downloads[d].handlers :
           /\ loads[l].stage = "download"
           /\ ~ loads[l].cancelled
           /\ ~ downloads[d].cancelled
           => \/ l \in e.handlers /\ ~ e.cancelled
              \/ InBlock(l) \/ l \in late,
         byUrl' \in [Url -> 0..Len(downloads)],
         \A u \in Url : byUrl'[u] \in {0, byUrl[u]}
  PROVE  TypeOK' /\ Safe'
<1>1. /\ Len(loads) \in Nat /\ Len(downloads) \in Nat
      /\ downloads \in Seq(DownloadState)
  BY Sequences DEF TypeOK
<1>2. /\ downloads' \in Seq(DownloadState)
      /\ Len(downloads)' = Len(downloads)
      /\ \A f \in 1..Len(downloads) : downloads'[f] = IF f = d THEN e ELSE downloads[f]
  BY <1>1, ExceptSeq
<1>3. \A f \in 1..Len(downloads) : KeptDownload(f)
  <2> TAKE f \in 1..Len(downloads)
  <2>1. CASE f = d
    BY <1>2, <2>1 DEF KeptDownload, Active
  <2>2. CASE f # d
    BY <1>2, <2>2 DEF KeptDownload, Active
  <2> QED  BY <2>1, <2>2
<1>4. /\ BlockStage' /\ BlocksDisjoint' /\ HandlerStage' /\ HandlersDisjoint'
      /\ OnlyLateStranded' /\ Counted'
      /\ Len(downloads)' <= Len(loads)'
  <2>1. \A k \in 1..Len(loads) : KeptLoad(k)
    BY DEF KeptLoad
  <2> QED  BY <1>1, <1>2, <1>3, <2>1, Kept
<1>5. TypeOK'
  <2>1. \A u \in Url : byUrl'[u] # 0 => downloads'[byUrl'[u]].url = u
    <3> TAKE u \in Url
    <3> HAVE byUrl'[u] # 0
    <3>1. byUrl'[u] = byUrl[u] /\ byUrl[u] \in 1..Len(downloads)
      BY <1>1 DEF TypeOK
    <3>2. downloads[byUrl[u]].url = u
      BY <3>1 DEF TypeOK
    <3> QED  BY <1>2, <3>1, <3>2
  <2>2. \A f \in 1..Len(downloads)' :
          downloads'[f].stage = "finished" => downloads'[f].handlers = {}
    BY <1>2 DEF TypeOK
  <2> QED  BY <1>2, <1>4, <2>1, <2>2 DEF TypeOK, cellVars, cacheVars
<1>6. Right' /\ Shown' /\ NoForeignImage'
  BY CellsKept DEF cellVars
<1> QED  BY <1>4, <1>5, <1>6 DEF Safe

LEMMA StartStep ==
  ASSUME TypeOK, Safe, NEW d \in Load, Start(d)
  PROVE  TypeOK' /\ Safe'
<1>1. d \in 1..Len(downloads) /\ downloads[d] \in DownloadState
  BY Sequences DEF Start, Load, CellImagesAssumption
<1>0. /\ UNCHANGED <<cellVars, loads, cacheVars, main, late>>
      /\ byUrl' \in [Url -> 0..Len(downloads)]
      /\ \A u \in Url : byUrl'[u] \in {0, byUrl[u]}
  BY DEF Start, TypeOK
<1>2. CASE downloads[d].cancelled
  <2> DEFINE e == [downloads[d] EXCEPT !.stage = "finished", !.handlers = {}]
  <2>1. e \in DownloadState /\ e.url = downloads[d].url /\ e.stage = "finished" /\ e.handlers = {}
    BY <1>1 DEF DownloadState
  <2>2. downloads' = [downloads EXCEPT ![d] = e]
    BY <1>1, <1>2, Sequences DEF Start
  <2> HIDE DEF e
  <2> QED  BY <1>0, <1>1, <1>2, <2>1, <2>2, Advance
<1>3. CASE ~ downloads[d].cancelled
  <2> DEFINE e == [downloads[d] EXCEPT !.stage = "running"]
  <2>1. /\ e \in DownloadState /\ e.url = downloads[d].url /\ e.stage = "running"
        /\ e.handlers = downloads[d].handlers /\ e.cancelled = downloads[d].cancelled
    BY <1>1 DEF DownloadState
  <2>2. downloads' = [downloads EXCEPT ![d] = e]
    BY <1>1, <1>3, Sequences DEF Start
  <2>3. Active(d)
    BY DEF Start, Active
  <2> HIDE DEF e
  <2> QED  BY <1>0, <1>1, <2>1, <2>2, <2>3, Advance
<1> QED  BY <1>2, <1>3

LEMMA ReceiveStep ==
  ASSUME TypeOK, Safe, NEW d \in Load, Receive(d)
  PROVE  TypeOK' /\ Safe'
<1>1. d \in 1..Len(downloads) /\ downloads[d] \in DownloadState
  BY Sequences DEF Receive, Load, CellImagesAssumption
<1> DEFINE e == [downloads[d] EXCEPT !.stage = "decoding"]
<1>2. /\ e \in DownloadState /\ e.url = downloads[d].url /\ e.stage = "decoding"
      /\ e.handlers = downloads[d].handlers /\ e.cancelled = downloads[d].cancelled
  BY <1>1 DEF DownloadState
<1>3. downloads' = [downloads EXCEPT ![d] = e]
  BY <1>1, Sequences DEF Receive
<1>4. /\ UNCHANGED <<cellVars, loads, cacheVars, main, late>>
      /\ byUrl' \in [Url -> 0..Len(downloads)]
      /\ \A u \in Url : byUrl'[u] \in {0, byUrl[u]}
      /\ Active(d)
  BY DEF Receive, TypeOK, Active
<1> HIDE DEF e
<1> QED  BY <1>1, <1>2, <1>3, <1>4, Advance

\* The handlers removed with the end of a download were called or came too late.
LEMMA DoneStep ==
  ASSUME TypeOK, Safe, NEW d \in Load, Done(d)
  PROVE  TypeOK' /\ Safe'
<1>1. d \in 1..Len(downloads) /\ downloads[d] \in DownloadState /\ downloads[d].stage = "called"
  BY Sequences DEF Done, Load, CellImagesAssumption
<1> DEFINE e == [downloads[d] EXCEPT !.stage = "finished", !.handlers = {}]
<1>2. e \in DownloadState /\ e.url = downloads[d].url /\ e.stage = "finished" /\ e.handlers = {}
  BY <1>1 DEF DownloadState
<1>3. downloads' = [downloads EXCEPT ![d] = e]
  BY <1>1, Sequences DEF Done
<1>4. \A l \in downloads[d].handlers :
        loads[l].stage = "download" /\ ~ loads[l].cancelled => InBlock(l) \/ l \in late
  BY <1>1 DEF Safe, HandlerStage
<1>5. /\ UNCHANGED <<cellVars, loads, cacheVars, main, late>>
      /\ byUrl' \in [Url -> 0..Len(downloads)]
      /\ \A u \in Url : byUrl'[u] \in {0, byUrl[u]}
  BY DEF Done, TypeOK
<1> HIDE DEF e
<1> QED  BY <1>1, <1>2, <1>3, <1>4, <1>5, Advance

LEMMA SweepStep ==
  ASSUME TypeOK, Safe, NEW d \in Load, Sweep(d)
  PROVE  TypeOK' /\ Safe'
<1>1. d \in 1..Len(downloads) /\ downloads[d] \in DownloadState
  BY Sequences DEF Sweep, Load, CellImagesAssumption
<1> DEFINE e == [downloads[d] EXCEPT !.swept = TRUE]
<1>2. /\ e \in DownloadState /\ e.url = downloads[d].url /\ e.stage = "finished"
      /\ e.handlers = downloads[d].handlers
  BY <1>1 DEF DownloadState, Sweep
<1>3. downloads' = [downloads EXCEPT ![d] = e]
  BY <1>1, Sequences DEF Sweep
<1>4. downloads[d].handlers = {}
  BY <1>1 DEF Sweep, TypeOK
<1>5. byUrl' \in [Url -> 0..Len(downloads)] /\ \A u \in Url : byUrl'[u] \in {0, byUrl[u]}
  <2>1. byUrl \in [Url -> 0..Len(downloads)] /\ Len(downloads) \in Nat
    BY Sequences DEF TypeOK
  <2>2. byUrl' = [byUrl EXCEPT ![downloads[d].url] = 0]
    BY DEF Sweep
  <2>3. 0 \in 0..Len(downloads)
    BY <2>1
  <2>4. \A u \in Url : byUrl'[u] = IF u = downloads[d].url THEN 0 ELSE byUrl[u]
    BY <2>1, <2>2
  <2>5. byUrl' \in [Url -> 0..Len(downloads)]
    BY <2>1, <2>2, <2>3
  <2> QED  BY <2>4, <2>5
<1>6. UNCHANGED <<cellVars, loads, cacheVars, main, late>>
  BY DEF Sweep
<1> HIDE DEF e
<1> QED  BY <1>1, <1>2, <1>3, <1>4, <1>5, <1>6, Advance

LEMMA MemoryWarningStep ==
  ASSUME TypeOK, Safe, MemoryWarning
  PROVE  TypeOK' /\ Safe'
<1>1. TypeOK'
  BY DEF TypeOK, MemoryWarning, cellVars
<1>2. UNCHANGED <<user, image, load, loads, downloads, main, late>>
  BY DEF MemoryWarning, cellVars
<1>3. /\ \A k \in 1..Len(loads) : KeptLoad(k)
      /\ \A d \in 1..Len(downloads) : KeptDownload(d)
  BY <1>2 DEF KeptLoad, KeptDownload, Active
<1>4. /\ BlockStage' /\ BlocksDisjoint' /\ HandlerStage' /\ HandlersDisjoint'
      /\ OnlyLateStranded' /\ Counted'
  BY <1>2, <1>3, Sequences, Kept
<1>5. Right' /\ Shown'
  BY <1>2, CellsKept
<1>6. NoForeignImage'
  BY <1>2, CellsKept
<1> QED  BY <1>1, <1>4, <1>5, <1>6 DEF Safe

-----------------------------------------------------------------------------
(* The configuration of a cell.                                            *)

\* What a cell that gives up its load leaves behind.
LEMMA GivingUp ==
  ASSUME TypeOK, Safe, NEW c \in Cell,
         UNCHANGED <<main, late>>,
         Len(loads)' \in Nat, Len(loads) <= Len(loads)',
         \A k \in 1..Len(loads) :
           /\ loads'[k].stage = loads[k].stage
           /\ loads'[k].cancelled =
                (loads[k].cancelled \/ (k = load[c] /\ loads[k].stage # "done")),
         \A k \in 1..Len(loads)' :
           k \notin 1..Len(loads) => loads'[k].stage \in {"query", "done"},
         downloads' = DownloadsWithout(load[c]),
         byUrl' = ByUrlWithout(load[c])
  PROVE  /\ BlockStage' /\ BlocksDisjoint' /\ HandlerStage' /\ HandlersDisjoint'
         /\ OnlyLateStranded' /\ Counted'
         /\ downloads' \in Seq(DownloadState) /\ Len(downloads)' <= Len(loads)'
         /\ byUrl' \in [Url -> 0..Len(downloads)']
         /\ \A u \in Url : byUrl'[u] # 0 => downloads'[byUrl'[u]].url = u
         /\ \A d \in 1..Len(downloads)' :
              downloads'[d].stage = "finished" => downloads'[d].handlers = {}
<1>1. load[c] \in 0..Len(loads) /\ Len(loads) \in Nat /\ Len(downloads) \in Nat
  BY Sequences DEF TypeOK
<1>2. /\ downloads' \in Seq(DownloadState)
      /\ Len(downloads)' = Len(downloads)
      /\ \A d \in 1..Len(downloads) :
           /\ downloads'[d].url = downloads[d].url
           /\ downloads'[d].handlers \subseteq downloads[d].handlers
           /\ downloads'[d].stage = "finished" => downloads'[d].handlers = {}
           /\ \/ /\ downloads'[d].stage = downloads[d].stage
                 /\ downloads'[d].cancelled = downloads[d].cancelled
                 /\ downloads[d].handlers \ {load[c]} \subseteq downloads'[d].handlers
              \/ /\ downloads'[d].stage \in {downloads[d].stage, "finished"}
                 /\ downloads[d].handlers \subseteq {load[c]}
                 /\ downloads'[d].handlers = {}
  BY <1>1, Leaving
<1>3. \A k \in 1..Len(loads) : KeptLoad(k)
  BY DEF KeptLoad
<1>4. \A d \in 1..Len(downloads) : KeptDownload(d)
  <2> TAKE d \in 1..Len(downloads)
  <2>1. \A l \in downloads[d].handlers :
          loads[l].stage = "download" /\ ~ loads'[l].cancelled => l # load[c]
    <3> TAKE l \in downloads[d].handlers
    <3>1. l \in 1..Len(loads)
      BY DEF Safe, HandlerStage
    <3> QED  BY <3>1
  <2>2. Active(d)' => Active(d)
    BY <1>2 DEF Active
  <2>3. downloads'[d].stage = "called" => downloads[d].stage = "called"
    BY <1>2
  <2> QED  BY <1>2, <2>1, <2>2, <2>3 DEF KeptDownload
<1>5. /\ BlockStage' /\ BlocksDisjoint' /\ HandlerStage' /\ HandlersDisjoint'
      /\ OnlyLateStranded' /\ Counted'
      /\ Len(downloads)' <= Len(loads)'
  BY <1>2, <1>3, <1>4, Kept
<1>6. /\ byUrl' \in [Url -> 0..Len(downloads)]
      /\ \A u \in Url : byUrl'[u] \in {0, byUrl[u]}
  BY <1>1, LeavingUrl
<1>7. \A u \in Url : byUrl'[u] # 0 => downloads'[byUrl'[u]].url = u
  <2> TAKE u \in Url
  <2> HAVE byUrl'[u] # 0
  <2>1. byUrl'[u] = byUrl[u] /\ byUrl[u] \in 1..Len(downloads)
    BY <1>1, <1>6 DEF TypeOK
  <2>2. downloads[byUrl[u]].url = u
    BY <2>1 DEF TypeOK
  <2> QED  BY <1>2, <2>1, <2>2
<1> QED  BY <1>2, <1>5, <1>6, <1>7

LEMMA ConfigureKeepingStep ==
  ASSUME TypeOK, Safe, NEW c \in Cell, NEW u \in User, ConfigureKeeping(c, u)
  PROVE  TypeOK' /\ Safe'
<1>1. /\ c \in KeepsImage /\ url[u] = None
      /\ user \in [Cell -> User \cup {None}]
      /\ user' = [user EXCEPT ![c] = u]
      /\ UNCHANGED <<image, load, loads, downloads, byUrl, memory, disk, failed, main, late>>
  BY DEF ConfigureKeeping, cacheVars, TypeOK
<1>2. \A b \in Cell : user'[b] = IF b = c THEN u ELSE user[b]
  BY <1>1
<1>3. TypeOK'
  BY <1>1 DEF TypeOK
<1>4. /\ \A k \in 1..Len(loads) : KeptLoad(k)
      /\ \A d \in 1..Len(downloads) : KeptDownload(d)
  BY <1>1 DEF KeptLoad, KeptDownload, Active
<1>5. /\ BlockStage' /\ BlocksDisjoint' /\ HandlerStage' /\ HandlersDisjoint'
      /\ OnlyLateStranded' /\ Counted'
  BY <1>1, <1>4, Sequences, Kept
<1>6. \A k \in 1..Len(loads) : loads[k].cell \in Cell
  BY Sequences DEF LoadState
<1>7. Right'
  BY <1>1, <1>2, <1>6 DEF Safe, Right
<1>8. Shown' /\ NoForeignImage'
  BY <1>1, <1>2 DEF Safe, Shown, NoForeignImage
<1> QED  BY <1>3, <1>5, <1>7, <1>8 DEF Safe

LEMMA ConfigureEmptyStep ==
  ASSUME TypeOK, Safe, NEW c \in Cell, NEW u \in User, ConfigureEmpty(c, u)
  PROVE  TypeOK' /\ Safe'
<1>1. /\ user' = [user EXCEPT ![c] = u]
      /\ image' = [image EXCEPT ![c] = None]
      /\ load' = [load EXCEPT ![c] = 0]
      /\ loads' = LoadsWithout(load[c])
      /\ downloads' = DownloadsWithout(load[c])
      /\ byUrl' = ByUrlWithout(load[c])
      /\ UNCHANGED <<memory, disk, failed, main, late>>
  BY DEF ConfigureEmpty, cacheVars
<1>2. /\ user \in [Cell -> User \cup {None}]
      /\ image \in [Cell -> Url \cup {None}]
      /\ load \in [Cell -> 0..Len(loads)]
      /\ load[c] \in 0..Len(loads) /\ Len(loads) \in Nat
  BY Sequences DEF TypeOK
<1>3. /\ loads' \in Seq(LoadState)
      /\ Len(loads)' = Len(loads)
      /\ \A k \in 1..Len(loads) :
           /\ loads'[k].cell = loads[k].cell /\ loads'[k].url = loads[k].url
           /\ loads'[k].stage = loads[k].stage
           /\ loads'[k].cancelled =
                (loads[k].cancelled \/ (k = load[c] /\ loads[k].stage # "done"))
  BY <1>1, <1>2, Cancelling
<1>4. /\ BlockStage' /\ BlocksDisjoint' /\ HandlerStage' /\ HandlersDisjoint'
      /\ OnlyLateStranded' /\ Counted'
      /\ downloads' \in Seq(DownloadState) /\ Len(downloads)' <= Len(loads)'
      /\ byUrl' \in [Url -> 0..Len(downloads)']
      /\ \A v \in Url : byUrl'[v] # 0 => downloads'[byUrl'[v]].url = v
      /\ \A d \in 1..Len(downloads)' :
           downloads'[d].stage = "finished" => downloads'[d].handlers = {}
  BY <1>1, <1>2, <1>3, GivingUp
<1>5. \A b \in Cell : /\ user'[b] = IF b = c THEN u ELSE user[b]
                      /\ image'[b] = IF b = c THEN None ELSE image[b]
                      /\ load'[b] = IF b = c THEN 0 ELSE load[b]
  BY <1>1, <1>2
<1>6. TypeOK'
  <2>1. /\ user' \in [Cell -> User \cup {None}]
        /\ image' \in [Cell -> Url \cup {None}]
        /\ load' \in [Cell -> 0..Len(loads)']
    BY <1>1, <1>2, <1>3
  <2> QED  BY <1>1, <1>3, <1>4, <2>1 DEF TypeOK
<1>7. Right'
  <2> SUFFICES ASSUME NEW k \in 1..Len(loads), loads'[k].stage # "done", ~ loads'[k].cancelled
               PROVE  LET b == loads'[k].cell IN
                      /\ load'[b] = k
                      /\ user'[b] \in User
                      /\ IF url[user'[b]] = None THEN b \in KeepsImage
                         ELSE loads'[k].url = url[user'[b]]
    BY <1>3 DEF Right
  <2>1. /\ loads[k].stage # "done" /\ ~ loads[k].cancelled /\ k # load[c]
        /\ loads[k].cell \in Cell
    BY <1>3, Sequences DEF LoadState
  <2>2. loads[k].cell # c
    BY <2>1 DEF Safe, Right
  <2> QED  BY <1>3, <1>5, <2>1, <2>2 DEF Safe, Right
<1>8. Shown' /\ NoForeignImage'
  BY <1>5 DEF Safe, Shown, NoForeignImage
<1> QED  BY <1>4, <1>6, <1>7, <1>8 DEF Safe

LEMMA ConfigureStep ==
  ASSUME TypeOK, Safe, NEW c \in Cell, NEW u \in User, Configure(c, u)
  PROVE  TypeOK' /\ Safe'
<1> DEFINE new == [cell |-> c, url |-> url[u], cancelled |-> FALSE,
                   stage |-> IF url[u] \in memory \cup failed THEN "done" ELSE "query"]
           shown == IF url[u] \in memory \ failed THEN url[u] ELSE None
           n == Len(loads) + 1
<1>1. /\ user' = [user EXCEPT ![c] = u]
      /\ image' = [image EXCEPT ![c] = shown]
      /\ load' = [load EXCEPT ![c] = n]
      /\ loads' = Append(LoadsWithout(load[c]), new)
      /\ downloads' = DownloadsWithout(load[c])
      /\ byUrl' = ByUrlWithout(load[c])
      /\ UNCHANGED <<memory, disk, failed, main, late>>
      /\ Len(loads) < MaxLoads
      /\ url[u] # None
  BY DEF Configure, cacheVars
<1>2. /\ user \in [Cell -> User \cup {None}]
      /\ image \in [Cell -> Url \cup {None}]
      /\ load \in [Cell -> 0..Len(loads)]
      /\ load[c] \in 0..Len(loads) /\ Len(loads) \in Nat
      /\ url[u] \in Url
  BY <1>1, Sequences, CellImagesAssumption DEF TypeOK
<1>3. /\ LoadsWithout(load[c]) \in Seq(LoadState)
      /\ Len(LoadsWithout(load[c])) = Len(loads)
      /\ \A k \in 1..Len(loads) :
           LET e == LoadsWithout(load[c])[k] IN
           /\ e.cell = loads[k].cell /\ e.url = loads[k].url /\ e.stage = loads[k].stage
           /\ e.cancelled = (loads[k].cancelled \/ (k = load[c] /\ loads[k].stage # "done"))
  BY <1>2, Cancelling
<1>4. /\ new \in LoadState
      /\ new.cell = c /\ new.url = url[u] /\ ~ new.cancelled /\ new.stage \in {"query", "done"}
  BY <1>2 DEF LoadState
<1>5. shown = None \/ shown = url[u]
  OBVIOUS
<1> HIDE DEF new, shown
<1>6. /\ loads' \in Seq(LoadState)
      /\ Len(loads)' = n
      /\ loads'[n] = new
      /\ \A k \in 1..Len(loads) :
           /\ loads'[k].cell = loads[k].cell /\ loads'[k].url = loads[k].url
           /\ loads'[k].stage = loads[k].stage
           /\ loads'[k].cancelled =
                (loads[k].cancelled \/ (k = load[c] /\ loads[k].stage # "done"))
  BY <1>1, <1>3, <1>4, AppendProperties
<1>7. \A k \in 1..Len(loads)' : k \in 1..Len(loads) \/ k = n
  BY <1>2, <1>6
<1>8. /\ BlockStage' /\ BlocksDisjoint' /\ HandlerStage' /\ HandlersDisjoint'
      /\ OnlyLateStranded' /\ Counted'
      /\ downloads' \in Seq(DownloadState) /\ Len(downloads)' <= Len(loads)'
      /\ byUrl' \in [Url -> 0..Len(downloads)']
      /\ \A v \in Url : byUrl'[v] # 0 => downloads'[byUrl'[v]].url = v
      /\ \A d \in 1..Len(downloads)' :
           downloads'[d].stage = "finished" => downloads'[d].handlers = {}
  <2>1. Len(loads)' \in Nat /\ Len(loads) <= Len(loads)'
    BY <1>2, <1>6
  <2>2. \A k \in 1..Len(loads)' :
          k \notin 1..Len(loads) => loads'[k].stage \in {"query", "done"}
    BY <1>4, <1>6, <1>7
  <2> QED  BY <1>1, <1>6, <2>1, <2>2, GivingUp
<1>9. \A b \in Cell : /\ user'[b] = IF b = c THEN u ELSE user[b]
                      /\ image'[b] = IF b = c THEN shown ELSE image[b]
                      /\ load'[b] = IF b = c THEN n ELSE load[b]
  BY <1>1, <1>2
<1>10. TypeOK'
  <2>1. /\ user' \in [Cell -> User \cup {None}]
        /\ image' \in [Cell -> Url \cup {None}]
    BY <1>1, <1>2, <1>5
  <2>2. load' \in [Cell -> 0..Len(loads)']
    BY <1>1, <1>2, <1>6
  <2>3. Len(loads)' <= MaxLoads
    BY <1>1, <1>2, <1>6, CellImagesAssumption
  <2>4. late' \in SUBSET (1..Len(loads)')
    BY <1>1, <1>2, <1>6 DEF TypeOK
  <2> QED  BY <1>1, <1>6, <1>8, <2>1, <2>2, <2>3, <2>4 DEF TypeOK
<1>11. Right'
  <2> SUFFICES ASSUME NEW k \in 1..Len(loads)', loads'[k].stage # "done", ~ loads'[k].cancelled
               PROVE  LET b == loads'[k].cell IN
                      /\ load'[b] = k
                      /\ user'[b] \in User
                      /\ IF url[user'[b]] = None THEN b \in KeepsImage
                         ELSE loads'[k].url = url[user'[b]]
    BY DEF Right
  <2>1. CASE k = n
    BY <1>1, <1>4, <1>6, <1>9, <2>1
  <2>2. CASE k \in 1..Len(loads)
    <3>1. /\ loads[k].stage # "done" /\ ~ loads[k].cancelled /\ k # load[c]
          /\ loads[k].cell \in Cell
      BY <1>6, <2>2, Sequences DEF LoadState
    <3>2. loads[k].cell # c
      BY <2>2, <3>1 DEF Safe, Right
    <3> QED  BY <1>6, <1>9, <2>2, <3>1, <3>2 DEF Safe, Right
  <2> QED  BY <1>7, <2>1, <2>2
<1>12. Shown' /\ NoForeignImage'
  BY <1>1, <1>5, <1>9 DEF Safe, Shown, NoForeignImage
<1> QED  BY <1>8, <1>10, <1>11, <1>12 DEF Safe

-----------------------------------------------------------------------------
(* The disk queue, and the blocks on the main thread.                      *)

LEMMA QueryStep ==
  ASSUME TypeOK, Safe, NEW l \in Load, Query(l)
  PROVE  TypeOK' /\ Safe'
<1> DEFINE found == loads[l].url \in disk
           stage == IF loads[l].cancelled THEN "done" ELSE "found"
           e == [loads[l] EXCEPT !.stage = stage]
           b == [of |-> "query", loads |-> {l}, ok |-> found, bars |-> FALSE]
<1>1. /\ l \in 1..Len(loads) /\ loads[l].stage = "query"
      /\ loads \in Seq(LoadState) /\ loads[l] \in LoadState
      /\ Len(loads) \in Nat /\ Len(loads) <= MaxLoads
      /\ loads' = [loads EXCEPT ![l] = e]
      /\ UNCHANGED <<user, image, load, downloads, byUrl, disk, failed, late>>
  BY Sequences, CellImagesAssumption DEF Query, Load, cellVars, TypeOK
<1>2. /\ e \in LoadState /\ e.cell = loads[l].cell /\ e.url = loads[l].url
      /\ e.cancelled = loads[l].cancelled /\ e.stage = stage
  BY <1>1 DEF LoadState
<1>3. /\ loads' \in Seq(LoadState)
      /\ Len(loads)' = Len(loads)
      /\ \A k \in 1..Len(loads) :
           /\ loads'[k].cell = loads[k].cell /\ loads'[k].url = loads[k].url
           /\ loads'[k].cancelled = loads[k].cancelled
           /\ loads'[k].stage = IF k = l THEN stage ELSE loads[k].stage
  <2> HIDE DEF e
  <2> QED  BY <1>1, <1>2, ExceptSeq
<1>4. Right' /\ Shown' /\ NoForeignImage'
  <2>1. Right'
    BY <1>1, <1>3 DEF Safe, Right
  <2> QED  BY <1>1, <2>1 DEF Safe, Shown, NoForeignImage
<1>5. memory' \in SUBSET Url
  BY <1>1 DEF Query, TypeOK, LoadState
<1>6. CASE loads[l].cancelled
  <2>1. UNCHANGED main /\ stage = "done"
    BY <1>6 DEF Query
  <2>2. /\ \A k \in 1..Len(loads) : KeptLoad(k)
        /\ \A d \in 1..Len(downloads) : KeptDownload(d)
    BY <1>1, <1>3, <2>1 DEF KeptLoad, KeptDownload, Active
  <2>3. /\ BlockStage' /\ BlocksDisjoint' /\ HandlerStage' /\ HandlersDisjoint'
        /\ OnlyLateStranded' /\ Counted'
    BY <1>1, <1>3, <2>1, <2>2, Kept
  <2>4. TypeOK'
    BY <1>1, <1>3, <1>5, <2>1 DEF TypeOK
  <2> QED  BY <1>4, <2>3, <2>4 DEF Safe
<1>7. CASE ~ loads[l].cancelled
  <2>1. main' = Append(main, b) /\ stage = "found"
    BY <1>7 DEF Query
  <2>2. b \in Block /\ b.of = "query" /\ b.loads = {l}
    BY <1>1, CellImagesAssumption DEF Block, Load
  <2> HIDE DEF b, stage
  <2>3. /\ main' \in Seq(Block)
        /\ Len(main') = Len(main) + 1
        /\ \A i \in 1..Len(main') : (i \in 1..Len(main) /\ main'[i] = main[i])
                                     \/ (i = Len(main) + 1 /\ main'[i] = b)
        /\ \A k : InBlock(k)' <=> InBlock(k) \/ k = l
    BY <2>1, <2>2, Pushed
  <2>4. ~ InBlock(l)
    BY <1>1 DEF Safe, BlockStage, InBlock, StageOf
  <2>5. BlockStage'
    BY <1>1, <1>3, <2>1, <2>2, <2>3 DEF Safe, BlockStage, StageOf
  <2>6. BlocksDisjoint'
    BY <2>2, <2>3, <2>4 DEF Safe, BlocksDisjoint, InBlock
  <2>7. HandlerStage'
    <3> SUFFICES ASSUME NEW d \in 1..Len(downloads), NEW k \in downloads[d].handlers
                 PROVE  /\ k \in 1..Len(loads)
                        /\ loads'[k].stage \in {"download", "done"}
                        /\ Active(d) => loads'[k].stage = "download" /\ ~ InBlock(k)'
                        /\ downloads[d].stage = "called" =>
                             loads'[k].stage = "done" \/ loads'[k].cancelled
                             \/ InBlock(k)' \/ k \in late
      BY <1>1, <1>3 DEF HandlerStage, Active
    <3>1. /\ k \in 1..Len(loads) /\ k # l
          /\ loads[k].stage \in {"download", "done"}
          /\ Active(d) => loads[k].stage = "download" /\ ~ InBlock(k)
          /\ downloads[d].stage = "called" =>
               loads[k].stage = "done" \/ loads[k].cancelled \/ InBlock(k) \/ k \in late
      BY <1>1 DEF Safe, HandlerStage
    <3> QED  BY <1>3, <2>3, <3>1
  <2>8. HandlersDisjoint'
    BY <1>1 DEF Safe, HandlersDisjoint, Active
  <2>9. OnlyLateStranded'
    <3> SUFFICES ASSUME NEW k \in 1..Len(loads), loads'[k].stage = "download",
                        ~ loads'[k].cancelled, k \notin late
                 PROVE  Awaited(k)'
      BY <1>1, <1>3 DEF OnlyLateStranded, Stranded
    <3>1. Awaited(k)
      BY <1>3, <2>1 DEF Safe, OnlyLateStranded, Stranded
    <3> QED  BY <1>1, <2>3, <3>1 DEF Awaited, InBlock
  <2>10. Counted'
    <3>1. Cardinality(Used) \in Nat /\ Cardinality(Used') \in Nat
          /\ Cardinality(Used) <= Cardinality(Used')
      BY <1>1, <1>3, UsedGrows
    <3>2. Len(downloads) \in Nat
      BY Sequences
    <3> QED  BY <1>1, <3>1, <3>2 DEF Safe, Counted
  <2>11. TypeOK'
    BY <1>1, <1>3, <1>5, <2>3 DEF TypeOK
  <2> QED  BY <1>4, <2>5, <2>6, <2>7, <2>8, <2>9, <2>10, <2>11 DEF Safe
<1> QED  BY <1>6, <1>7

\* What is left when a block has ended its loads.
LEMMA Ends ==
  ASSUME TypeOK, Safe, main # << >>, main' = Tail(main),
         loads' = Ended(Head(main).loads),
         UNCHANGED <<user, load, downloads, byUrl, late>>
  PROVE  /\ loads' \in Seq(LoadState) /\ Len(loads)' = Len(loads) /\ main' \in Seq(Block)
         /\ BlockStage' /\ BlocksDisjoint' /\ HandlerStage' /\ HandlersDisjoint'
         /\ OnlyLateStranded' /\ Counted' /\ Right'
<1> DEFINE B == Head(main).loads
<1>1. /\ loads' \in Seq(LoadState)
      /\ Len(loads)' = Len(loads)
      /\ \A k \in 1..Len(loads) :
           /\ loads'[k].cell = loads[k].cell /\ loads'[k].url = loads[k].url
           /\ loads'[k].cancelled = loads[k].cancelled
           /\ loads'[k].stage = IF k \in B THEN "done" ELSE loads[k].stage
  BY Ending
<1>2. /\ Head(main) = main[1] /\ 1 \in 1..Len(main)
      /\ main' \in Seq(Block)
      /\ Len(main') = Len(main) - 1
      /\ \A i \in 1..Len(main') : i + 1 \in 1..Len(main) /\ main'[i] = main[i + 1]
      /\ \A k : InBlock(k) => k \in B \/ InBlock(k)'
      /\ \A k : InBlock(k)' => InBlock(k)
  BY Popped
<1>3. \A k \in B : InBlock(k)
  BY <1>2 DEF InBlock
<1>4. \A i \in 1..Len(main') : \A k \in main'[i].loads : k \notin B
  <2> TAKE i \in 1..Len(main')
  <2>1. i + 1 # 1
    OBVIOUS
  <2> QED  BY <1>2, <2>1 DEF Safe, BlocksDisjoint
<1> HIDE DEF B
<1>5. BlockStage'
  BY <1>1, <1>2, <1>4 DEF Safe, BlockStage, StageOf
<1>6. BlocksDisjoint'
  <2> SUFFICES ASSUME NEW i \in 1..Len(main'), NEW j \in 1..Len(main'), i # j
               PROVE  main'[i].loads \cap main'[j].loads = {}
    BY DEF BlocksDisjoint
  <2>1. i + 1 # j + 1
    OBVIOUS
  <2> QED  BY <1>2, <2>1 DEF Safe, BlocksDisjoint
<1>7. HandlerStage'
  <2> SUFFICES ASSUME NEW d \in 1..Len(downloads), NEW k \in downloads[d].handlers
               PROVE  /\ k \in 1..Len(loads)
                      /\ loads'[k].stage \in {"download", "done"}
                      /\ Active(d) => loads'[k].stage = "download" /\ ~ InBlock(k)'
                      /\ downloads[d].stage = "called" =>
                           loads'[k].stage = "done" \/ loads'[k].cancelled
                           \/ InBlock(k)' \/ k \in late
    BY <1>1 DEF HandlerStage, Active
  <2>1. /\ k \in 1..Len(loads)
        /\ loads[k].stage \in {"download", "done"}
        /\ Active(d) => loads[k].stage = "download" /\ ~ InBlock(k)
        /\ downloads[d].stage = "called" =>
             loads[k].stage = "done" \/ loads[k].cancelled \/ InBlock(k) \/ k \in late
    BY DEF Safe, HandlerStage
  <2> QED  BY <1>1, <1>2, <1>3, <2>1
<1>8. HandlersDisjoint'
  BY DEF Safe, HandlersDisjoint, Active
<1>9. OnlyLateStranded'
  <2> SUFFICES ASSUME NEW k \in 1..Len(loads), loads'[k].stage = "download",
                      ~ loads'[k].cancelled, k \notin late
               PROVE  Awaited(k)'
    BY <1>1 DEF OnlyLateStranded, Stranded
  <2>1. k \notin B /\ Awaited(k)
    BY <1>1 DEF Safe, OnlyLateStranded, Stranded
  <2>2. InBlock(k) => InBlock(k)'
    BY <1>2, <2>1
  <2> QED  BY <2>1, <2>2 DEF Awaited, InBlock
<1>10. Counted'
  <2>1. Len(loads) \in Nat /\ Len(downloads) \in Nat
    BY Sequences
  <2>2. Cardinality(Used) \in Nat /\ Cardinality(Used') \in Nat
        /\ Cardinality(Used) <= Cardinality(Used')
    BY <1>1, <2>1, UsedGrows
  <2> QED  BY <2>1, <2>2 DEF Safe, Counted
<1>11. Right'
  BY <1>1 DEF Safe, Right
<1> QED  BY <1>1, <1>2, <1>5, <1>6, <1>7, <1>8, <1>9, <1>10, <1>11

\* The loads of a block that set images do so in the cells they are still
\* registered with, and for the users these still have.
LEMMA Images ==
  ASSUME TypeOK, Safe, main # << >>, UNCHANGED user,
         image' = ImagesOf(Live(Head(main)))
  PROVE  image' \in [Cell -> Url \cup {None}] /\ Shown' /\ NoForeignImage'
<1> DEFINE S == Live(Head(main))
<1>1. \A l \in S : /\ l \in 1..Len(loads) /\ loads[l] \in LoadState
                   /\ loads[l].stage # "done" /\ ~ loads[l].cancelled
  <2> TAKE l \in S
  <2>1. l \in main[1].loads /\ ~ loads[l].cancelled /\ 1 \in 1..Len(main)
    <3>1. main \in Seq(Block) /\ Len(main) \in Nat \ {0}
      BY EmptySeq DEF TypeOK
    <3> QED  BY <3>1, HeadTailProperties DEF Live
  <2>2. l \in 1..Len(loads) /\ loads[l].stage = StageOf(main[1].of)
    BY <2>1 DEF Safe, BlockStage
  <2> QED  BY <2>1, <2>2, Sequences DEF StageOf
<1>2. \A c \in Cell : \/ image'[c] = image[c]
                      \/ \E l \in S : loads[l].cell = c /\ image'[c] = loads[l].url
  <2> TAKE c \in Cell
  <2>1. image'[c] = IF \E l \in S : loads[l].cell = c
                    THEN loads[CHOOSE l \in S : loads[l].cell = c].url
                    ELSE image[c]
    BY DEF ImagesOf
  <2> HIDE DEF S
  <2>2. CASE \E l \in S : loads[l].cell = c
    <3> DEFINE m == CHOOSE l \in S : loads[l].cell = c
    <3>1. m \in S /\ loads[m].cell = c
      BY <2>2
    <3>2. image'[c] = loads[m].url
      BY <2>1, <2>2
    <3> HIDE DEF m
    <3> QED  BY <3>1, <3>2
  <2> QED  BY <2>1, <2>2
<1>3. image' \in [Cell -> Url \cup {None}]
  <2>1. \A c \in Cell : image[c] \in Url \cup {None}
    BY DEF TypeOK
  <2>2. \A c \in Cell : image'[c] \in Url \cup {None}
    BY <1>1, <1>2, <2>1 DEF LoadState
  <2> QED  BY <2>2 DEF ImagesOf
<1> HIDE DEF S
<1>4. \A c \in Cell : image'[c] # None =>
        user[c] \in User /\ IF url[user[c]] = None THEN c \in KeepsImage
                            ELSE image'[c] = url[user[c]]
  <2> TAKE c \in Cell
  <2>1. CASE image'[c] = image[c]
    BY <2>1 DEF Safe, Shown, NoForeignImage
  <2>2. CASE \E l \in S : loads[l].cell = c /\ image'[c] = loads[l].url
    BY <1>1, <2>2 DEF Safe, Right
  <2> QED  BY <1>2, <2>1, <2>2
<1> QED  BY <1>3, <1>4 DEF Shown, NoForeignImage

LEMMA UseCachedStep ==
  ASSUME TypeOK, Safe, UseCached
  PROVE  TypeOK' /\ Safe'
<1>1. /\ main # << >> /\ main' = Tail(main)
      /\ loads' = Ended(Head(main).loads)
      /\ image' = ImagesOf(Live(Head(main)))
      /\ UNCHANGED <<user, load, downloads, byUrl, memory, disk, failed, late>>
  BY DEF UseCached, cacheVars
<1>2. /\ loads' \in Seq(LoadState) /\ Len(loads)' = Len(loads) /\ main' \in Seq(Block)
      /\ BlockStage' /\ BlocksDisjoint' /\ HandlerStage' /\ HandlersDisjoint'
      /\ OnlyLateStranded' /\ Counted' /\ Right'
  BY <1>1, Ends
<1>3. image' \in [Cell -> Url \cup {None}] /\ Shown' /\ NoForeignImage'
  BY <1>1, Images
<1>4. TypeOK'
  BY <1>1, <1>2, <1>3 DEF TypeOK
<1> QED  BY <1>2, <1>3, <1>4 DEF Safe

LEMMA UseDownloadedStep ==
  ASSUME TypeOK, Safe, UseDownloaded
  PROVE  TypeOK' /\ Safe'
<1> DEFINE urls == {loads[l].url : l \in Live(Head(main))}
<1>1. /\ main # << >> /\ main' = Tail(main)
      /\ loads' = Ended(Head(main).loads)
      /\ UNCHANGED <<user, load, downloads, byUrl, late>>
      /\ image' = ImagesOf(Live(Head(main))) \/ UNCHANGED image
      /\ memory' \in {memory, memory \cup urls}
      /\ disk' \in {disk, disk \cup urls}
      /\ failed' \in {failed, failed \cup urls}
  BY DEF UseDownloaded
<1>2. /\ loads' \in Seq(LoadState) /\ Len(loads)' = Len(loads) /\ main' \in Seq(Block)
      /\ BlockStage' /\ BlocksDisjoint' /\ HandlerStage' /\ HandlersDisjoint'
      /\ OnlyLateStranded' /\ Counted' /\ Right'
  BY <1>1, Ends
<1>3. image' \in [Cell -> Url \cup {None}] /\ Shown' /\ NoForeignImage'
  <2>1. CASE UNCHANGED image
    BY <1>1, <2>1 DEF TypeOK, Safe, Shown, NoForeignImage
  <2> QED  BY <1>1, <2>1, Images
<1>4. urls \subseteq Url
  <2>1. Head(main) = main[1] /\ 1 \in 1..Len(main)
    BY <1>1, Popped
  <2>2. \A l \in Live(Head(main)) : l \in 1..Len(loads)
    BY <2>1 DEF Live, Safe, BlockStage
  <2> QED  BY <2>2, Sequences DEF LoadState
<1> HIDE DEF urls
<1>5. TypeOK'
  <2>1. memory' \in SUBSET Url /\ disk' \in SUBSET Url /\ failed' \in SUBSET Url
    BY <1>1, <1>4 DEF TypeOK
  <2> QED  BY <1>1, <1>2, <1>3, <2>1 DEF TypeOK
<1> QED  BY <1>2, <1>3, <1>5 DEF Safe

\* A load that has left its block and joined the download t.
LEMMA Joins ==
  ASSUME TypeOK, Safe, main # << >>, main' = Tail(main),
         NEW l \in Live(Head(main)), Head(main).of = "query",
         loads' = [loads EXCEPT ![l].stage = "download"],
         NEW t, t \in 1..Len(downloads)',
         Len(downloads)' \in {Len(downloads), Len(downloads) + 1},
         \A d \in 1..Len(downloads)' :
           d # t => d \in 1..Len(downloads) /\ downloads'[d] = downloads[d],
         t \in 1..Len(downloads) =>
           /\ downloads'[t].handlers = downloads[t].handlers \cup {l}
           /\ downloads'[t].stage = downloads[t].stage,
         t \notin 1..Len(downloads) =>
           downloads'[t].handlers = {l} /\ downloads'[t].stage = "waiting",
         Len(downloads) <= Len(downloads)',
         ~ downloads'[t].cancelled,
         downloads'[t].stage = "called" => l \in late',
         late \subseteq late',
         UNCHANGED cellVars
  PROVE  /\ loads' \in Seq(LoadState) /\ Len(loads)' = Len(loads) /\ main' \in Seq(Block)
         /\ l \in 1..Len(loads) /\ loads[l] \in LoadState
         /\ BlockStage' /\ BlocksDisjoint' /\ HandlerStage' /\ HandlersDisjoint'
         /\ OnlyLateStranded' /\ Counted' /\ Right'
         /\ Len(downloads)' <= Len(loads)'
<1> DEFINE B == Head(main).loads
<1>1. /\ Head(main) = main[1] /\ 1 \in 1..Len(main)
      /\ main' \in Seq(Block)
      /\ Len(main') = Len(main) - 1
      /\ \A i \in 1..Len(main') : i + 1 \in 1..Len(main) /\ main'[i] = main[i + 1]
      /\ \A k : InBlock(k) => k \in B \/ InBlock(k)'
      /\ \A k : InBlock(k)' => InBlock(k)
  BY Popped
<1>2. \A k \in B : InBlock(k) /\ k \in 1..Len(loads) /\ loads[k].stage = "found"
  BY <1>1 DEF InBlock, Safe, BlockStage, StageOf
<1>3. /\ l \in B /\ l \in 1..Len(loads) /\ loads[l].stage = "found"
      /\ loads[l] \in LoadState /\ loads \in Seq(LoadState)
      /\ Len(loads) \in Nat /\ Len(downloads) \in Nat
  BY <1>2, Sequences DEF Live, TypeOK
<1>4. \A i \in 1..Len(main') : \A k \in main'[i].loads : k \notin B
  <2> TAKE i \in 1..Len(main')
  <2>1. i + 1 # 1
    OBVIOUS
  <2> QED  BY <1>1, <2>1 DEF Safe, BlocksDisjoint
<1> HIDE DEF B
<1>5. /\ loads' \in Seq(LoadState)
      /\ Len(loads)' = Len(loads)
      /\ \A k \in 1..Len(loads) :
           /\ loads'[k].cell = loads[k].cell /\ loads'[k].url = loads[k].url
           /\ loads'[k].cancelled = loads[k].cancelled
           /\ loads'[k].stage = IF k = l THEN "download" ELSE loads[k].stage
  <2> DEFINE e == [loads[l] EXCEPT !.stage = "download"]
  <2>1. /\ e \in LoadState /\ e.cell = loads[l].cell /\ e.url = loads[l].url
        /\ e.cancelled = loads[l].cancelled /\ e.stage = "download"
    BY <1>3 DEF LoadState
  <2>2. loads' = [loads EXCEPT ![l] = e]
    OBVIOUS
  <2> HIDE DEF e
  <2>3. /\ loads' \in Seq(LoadState)
        /\ Len(loads)' = Len(loads)
        /\ \A k \in 1..Len(loads) : loads'[k] = IF k = l THEN e ELSE loads[k]
    BY ONLY <1>3, <2>1, <2>2, ExceptSeq
  <2> QED  BY ONLY <2>1, <2>3
<1>6. ~ InBlock(l)'
  BY <1>3, <1>4 DEF InBlock
<1>7. BlockStage'
  BY <1>1, <1>3, <1>4, <1>5 DEF Safe, BlockStage, StageOf
<1>8. BlocksDisjoint'
  <2> SUFFICES ASSUME NEW i \in 1..Len(main'), NEW j \in 1..Len(main'), i # j
               PROVE  main'[i].loads \cap main'[j].loads = {}
    BY DEF BlocksDisjoint
  <2>1. i + 1 # j + 1
    OBVIOUS
  <2> QED  BY <1>1, <2>1 DEF Safe, BlocksDisjoint
<1>9. \A d \in 1..Len(downloads) : \A k \in downloads[d].handlers :
        /\ k \in 1..Len(loads) /\ k # l
        /\ loads[k].stage \in {"download", "done"}
        /\ Active(d) => loads[k].stage = "download" /\ ~ InBlock(k)
        /\ downloads[d].stage = "called" =>
             loads[k].stage = "done" \/ loads[k].cancelled \/ InBlock(k)' \/ k \in late
  BY <1>1, <1>2, <1>3 DEF Safe, HandlerStage
<1>10. \A d \in 1..Len(downloads)' :
         /\ d \in 1..Len(downloads) => downloads'[d].stage = downloads[d].stage
         /\ d \notin 1..Len(downloads) => d = t
         /\ \A k \in downloads'[d].handlers :
              \/ k = l /\ d = t
              \/ d \in 1..Len(downloads) /\ k \in downloads[d].handlers
  OBVIOUS
<1>11. HandlerStage'
  <2> SUFFICES ASSUME NEW d \in 1..Len(downloads)', NEW k \in downloads'[d].handlers
               PROVE  /\ k \in 1..Len(loads)
                      /\ loads'[k].stage \in {"download", "done"}
                      /\ Active(d)' => loads'[k].stage = "download" /\ ~ InBlock(k)'
                      /\ downloads'[d].stage = "called" =>
                           loads'[k].stage = "done" \/ loads'[k].cancelled
                           \/ InBlock(k)' \/ k \in late'
    BY <1>5 DEF HandlerStage
  <2>1. CASE k = l /\ d = t
    BY <1>3, <1>5, <1>6, <2>1
  <2>2. CASE d \in 1..Len(downloads) /\ k \in downloads[d].handlers
    <3>1. Active(d)' => Active(d)
      BY <1>10, <2>2 DEF Active
    <3>2. /\ k \in 1..Len(loads) /\ k # l
          /\ loads[k].stage \in {"download", "done"}
          /\ Active(d) => loads[k].stage = "download" /\ ~ InBlock(k)
          /\ downloads[d].stage = "called" =>
               loads[k].stage = "done" \/ loads[k].cancelled \/ InBlock(k)' \/ k \in late
      BY ONLY <1>9, <2>2
    <3>3. downloads'[d].stage = downloads[d].stage
      BY <1>10, <2>2
    <3>4. /\ loads'[k].cancelled = loads[k].cancelled
          /\ loads'[k].stage = loads[k].stage
      BY ONLY <1>5, <3>2
    <3>5. InBlock(k)' => InBlock(k)
      BY <1>1
    <3>6. k \in late => k \in late'
      OBVIOUS
    <3> QED  BY ONLY <3>1, <3>2, <3>3, <3>4, <3>5, <3>6
  <2> QED  BY <1>10, <2>1, <2>2
<1>12. HandlersDisjoint'
  <2> SUFFICES ASSUME NEW d \in 1..Len(downloads)', NEW e \in 1..Len(downloads)',
                      d # e, Active(d)', Active(e)',
                      NEW k \in downloads'[d].handlers, k \in downloads'[e].handlers
               PROVE  FALSE
    BY DEF HandlersDisjoint
  <2>1. CASE k = l
    BY <1>9, <1>10, <2>1
  <2>2. CASE k # l
    <3>1. /\ d \in 1..Len(downloads) /\ k \in downloads[d].handlers
          /\ e \in 1..Len(downloads) /\ k \in downloads[e].handlers
      BY <1>10, <2>2
    <3>2. Active(d) /\ Active(e)
      BY <1>10, <3>1 DEF Active
    <3> QED  BY <3>1, <3>2 DEF Safe, HandlersDisjoint
  <2> QED  BY <2>1, <2>2
<1>13. OnlyLateStranded'
  <2> SUFFICES ASSUME NEW k \in 1..Len(loads), loads'[k].stage = "download",
                      ~ loads'[k].cancelled, k \notin late'
               PROVE  Awaited(k)'
    BY <1>5 DEF OnlyLateStranded, Stranded
  <2>1. CASE k = l
    <3>1. l \in downloads'[t].handlers /\ ~ downloads'[t].cancelled
      OBVIOUS
    <3> QED  BY <2>1, <3>1 DEF Awaited
  <2>2. CASE k # l
    <3>1. loads[k].stage = "download" /\ ~ loads[k].cancelled /\ k \notin late
      BY <1>5, <2>2
    <3>2. Awaited(k) /\ k \notin B
      BY <1>2, <3>1 DEF Safe, OnlyLateStranded, Stranded
    <3>3. CASE InBlock(k)
      BY <1>1, <3>2, <3>3 DEF Awaited, InBlock
    <3>4. CASE \E d \in 1..Len(downloads) :
                 k \in downloads[d].handlers /\ ~ downloads[d].cancelled
      <4>1. PICK d \in 1..Len(downloads) :
                   k \in downloads[d].handlers /\ ~ downloads[d].cancelled
        BY <3>4
      <4>2. d \in 1..Len(downloads)'
        BY <1>3
      <4>3. k \in downloads'[d].handlers /\ ~ downloads'[d].cancelled
        BY <4>1, <4>2
      <4> QED  BY <4>2, <4>3 DEF Awaited
    <3> QED  BY <3>2, <3>3, <3>4 DEF Awaited, InBlock
  <2> QED  BY <2>1, <2>2
<1>14. Counted' /\ Len(downloads)' <= Len(loads)'
  <2>1. /\ IsFiniteSet(Used) /\ IsFiniteSet(Used') /\ Used \subseteq Used'
        /\ Cardinality(Used) \in Nat /\ Cardinality(Used') \in Nat
        /\ Cardinality(Used') <= Len(loads)'
    BY <1>3, <1>5, UsedGrows
  <2>2. l \notin Used /\ l \in Used'
    BY <1>3, <1>5 DEF Used
  <2>3. IsFiniteSet(Used \cup {l}) /\ Cardinality(Used \cup {l}) = Cardinality(Used) + 1
    BY <2>1, <2>2, FS_AddElement
  <2>4. Cardinality(Used \cup {l}) <= Cardinality(Used')
    BY <2>1, <2>2, FS_Subset
  <2>5. Len(downloads)' <= Cardinality(Used')
    BY <1>3, <2>1, <2>3, <2>4 DEF Safe, Counted
  <2> QED  BY <1>3, <2>1, <2>5 DEF Counted
<1>15. Right'
  BY <1>3, <1>5 DEF Safe, Right, cellVars
<1> QED  BY <1>1, <1>3, <1>5, <1>7, <1>8, <1>11, <1>12, <1>13, <1>14, <1>15

LEMMA DownloadStep ==
  ASSUME TypeOK, Safe, Download
  PROVE  TypeOK' /\ Safe'
<1>1. PICK l \in Live(Head(main)) :
        LET u == loads[l].url
            d == byUrl[u]
        IN
        /\ loads' = [loads EXCEPT ![l].stage = "download"]
        /\ IF Joinable(d)
           THEN /\ downloads' = [downloads EXCEPT ![d].handlers = @ \cup {l}]
                /\ late' = IF downloads[d].stage = "called" THEN late \cup {l} ELSE late
                /\ UNCHANGED byUrl
           ELSE /\ downloads' = Append(downloads,
                     [url |-> u, stage |-> "waiting", handlers |-> {l},
                      cancelled |-> FALSE, swept |-> FALSE, ok |-> FALSE])
                /\ byUrl' = [byUrl EXCEPT ![u] = Len(downloads) + 1]
                /\ UNCHANGED late
  BY DEF Download
<1>2. /\ main # << >> /\ main' = Tail(main) /\ Head(main).of = "query"
      /\ UNCHANGED <<user, image, load, memory, disk, failed>>
  BY DEF Download, cellVars, cacheVars
<1> DEFINE u == loads[l].url
           d == byUrl[u]
<1>3. /\ l \in 1..Len(loads) /\ loads[l] \in LoadState /\ l \in Load /\ u \in Url
      /\ Len(loads) \in Nat /\ Len(loads) <= MaxLoads
      /\ Len(downloads) \in Nat /\ downloads \in Seq(DownloadState)
  <2>1. Head(main) = main[1] /\ 1 \in 1..Len(main)
    BY <1>2, Popped
  <2>2. l \in 1..Len(loads)
    BY <2>1 DEF Live, Safe, BlockStage
  <2>3. loads[l] \in LoadState /\ u \in Url
    BY <2>2, Sequences DEF LoadState
  <2>4. /\ Len(loads) \in Nat /\ Len(loads) <= MaxLoads
        /\ Len(downloads) \in Nat /\ downloads \in Seq(DownloadState)
    BY Sequences DEF TypeOK
  <2>5. l \in Load
    BY <2>2, <2>4, CellImagesAssumption DEF Load
  <2> QED  BY <2>2, <2>3, <2>4, <2>5
<1>4. CASE Joinable(d)
  <2> DEFINE e == [downloads[d] EXCEPT !.handlers = @ \cup {l}]
  <2>1. d \in 1..Len(downloads) /\ downloads[d] \in DownloadState
    BY <1>3, <1>4, Sequences DEF Joinable, TypeOK
  <2>2. /\ e \in DownloadState /\ e.url = downloads[d].url /\ e.stage = downloads[d].stage
        /\ e.cancelled = downloads[d].cancelled
        /\ e.handlers = downloads[d].handlers \cup {l}
    BY <1>3, <2>1 DEF DownloadState
  <2>3. downloads' = [downloads EXCEPT ![d] = e]
    BY <1>1, <1>4
  <2>4. /\ late' = IF downloads[d].stage = "called" THEN late \cup {l} ELSE late
        /\ UNCHANGED byUrl
    BY <1>1, <1>4
  <2>5. ~ downloads[d].cancelled /\ downloads[d].stage # "finished"
    BY <1>4 DEF Joinable
  <2> HIDE DEF e, d
  <2>6. /\ downloads' \in Seq(DownloadState)
        /\ Len(downloads)' = Len(downloads)
        /\ \A f \in 1..Len(downloads) : downloads'[f] = IF f = d THEN e ELSE downloads[f]
    BY <1>3, <2>1, <2>2, <2>3, ExceptSeq
  <2>7. /\ loads' \in Seq(LoadState) /\ Len(loads)' = Len(loads) /\ main' \in Seq(Block)
        /\ BlockStage' /\ BlocksDisjoint' /\ HandlerStage' /\ HandlersDisjoint'
        /\ OnlyLateStranded' /\ Counted' /\ Right'
        /\ Len(downloads)' <= Len(loads)'
    <3>1. \A f \in 1..Len(downloads)' :
            f # d => f \in 1..Len(downloads) /\ downloads'[f] = downloads[f]
      BY <2>6
    <3>2. /\ d \in 1..Len(downloads)' /\ downloads'[d] = e
          /\ Len(downloads)' \in {Len(downloads), Len(downloads) + 1}
          /\ Len(downloads) <= Len(downloads)'
      BY <1>3, <2>1, <2>6
    <3>3. /\ downloads'[d].handlers = downloads[d].handlers \cup {l}
          /\ downloads'[d].stage = downloads[d].stage
          /\ ~ downloads'[d].cancelled
      BY <2>2, <2>5, <3>2
    <3>4. (downloads'[d].stage = "called" => l \in late') /\ late \subseteq late'
      BY <2>4, <3>3
    <3>5. loads' = [loads EXCEPT ![l].stage = "download"] /\ UNCHANGED cellVars
      BY <1>1, <1>2 DEF cellVars
    <3> QED  BY <1>2, <2>1, <3>1, <3>2, <3>3, <3>4, <3>5, Joins
  <2>8. TypeOK'
    <3>1. late' \in SUBSET (1..Len(loads)')
      BY <1>3, <2>4, <2>7 DEF TypeOK
    <3>2. /\ byUrl' \in [Url -> 0..Len(downloads)']
          /\ \A v \in Url : byUrl'[v] # 0 => downloads'[byUrl'[v]].url = v
      <4>1. \A v \in Url : byUrl[v] \in 0..Len(downloads)
        BY DEF TypeOK
      <4> QED  BY <1>3, <2>2, <2>4, <2>6, <4>1 DEF TypeOK
    <3>3. \A f \in 1..Len(downloads)' :
            downloads'[f].stage = "finished" => downloads'[f].handlers = {}
      BY <2>2, <2>5, <2>6 DEF TypeOK
    <3> QED  BY <1>2, <1>3, <2>6, <2>7, <3>1, <3>2, <3>3 DEF TypeOK
  <2> QED  BY <1>2, <2>7, <2>8 DEF Safe, Shown, NoForeignImage
<1>5. CASE ~ Joinable(d)
  <2> DEFINE e == [url |-> u, stage |-> "waiting", handlers |-> {l},
                   cancelled |-> FALSE, swept |-> FALSE, ok |-> FALSE]
             t == Len(downloads) + 1
  <2>1. /\ downloads' = Append(downloads, e)
        /\ byUrl' = [byUrl EXCEPT ![u] = t]
        /\ UNCHANGED late
    BY <1>1, <1>5
  <2>2. /\ e \in DownloadState /\ e.url = u /\ e.stage = "waiting"
        /\ ~ e.cancelled /\ e.handlers = {l}
    BY <1>3 DEF DownloadState
  <2> HIDE DEF e, u
  <2>3. /\ downloads' \in Seq(DownloadState)
        /\ Len(downloads)' = t
        /\ \A f \in 1..Len(downloads) : downloads'[f] = downloads[f]
        /\ downloads'[t] = e
    BY <1>3, <2>1, <2>2, AppendProperties
  <2>4. \A f \in 1..Len(downloads)' : f = t \/ f \in 1..Len(downloads)
    BY <1>3, <2>3
  <2>5. /\ loads' \in Seq(LoadState) /\ Len(loads)' = Len(loads) /\ main' \in Seq(Block)
        /\ BlockStage' /\ BlocksDisjoint' /\ HandlerStage' /\ HandlersDisjoint'
        /\ OnlyLateStranded' /\ Counted' /\ Right'
        /\ Len(downloads)' <= Len(loads)'
    <3>1. t \in 1..Len(downloads)' /\ t \notin 1..Len(downloads)
      BY <1>3, <2>3
    <3>2. Len(downloads) <= Len(downloads)'
      BY <1>3, <2>3
    <3>3. loads' = [loads EXCEPT ![l].stage = "download"]
      BY <1>1
    <3>4. /\ downloads'[t].handlers = {l} /\ downloads'[t].stage = "waiting"
          /\ ~ downloads'[t].cancelled
      BY <2>2, <2>3
    <3>5. Len(downloads)' \in {Len(downloads), Len(downloads) + 1}
      BY <2>3
    <3>6. late \subseteq late' /\ UNCHANGED cellVars
      BY <1>2, <2>1 DEF cellVars
    <3>7. \A f \in 1..Len(downloads)' :
            f # t => f \in 1..Len(downloads) /\ downloads'[f] = downloads[f]
      BY <2>3, <2>4
    <3> HIDE DEF t
    <3> QED  BY <1>2, <3>1, <3>2, <3>3, <3>4, <3>5, <3>6, <3>7, Joins
  <2>6. TypeOK'
    <3>1. \A v \in Url : byUrl'[v] = IF v = u THEN t ELSE byUrl[v]
      BY <1>3, <2>1 DEF TypeOK
    <3>2. byUrl' \in [Url -> 0..Len(downloads)']
      BY <1>3, <2>1, <2>3 DEF TypeOK
    <3>3. \A v \in Url : byUrl'[v] # 0 => downloads'[byUrl'[v]].url = v
      <4>1. \A v \in Url : byUrl[v] \in 0..Len(downloads)
        BY DEF TypeOK
      <4> TAKE v \in Url
      <4> HAVE byUrl'[v] # 0
      <4>2. CASE v = u
        BY <2>2, <2>3, <3>1, <4>2
      <4>3. CASE v # u
        <5>1. byUrl'[v] = byUrl[v] /\ byUrl[v] \in 1..Len(downloads)
          BY <1>3, <3>1, <4>1, <4>3
        <5>2. downloads[byUrl[v]].url = v
          BY <5>1 DEF TypeOK
        <5> QED  BY <2>3, <5>1, <5>2
      <4> QED  BY <4>2, <4>3
    <3>4. \A f \in 1..Len(downloads)' :
            downloads'[f].stage = "finished" => downloads'[f].handlers = {}
      BY <2>2, <2>3, <2>4 DEF TypeOK
    <3> QED  BY <1>2, <1>3, <2>1, <2>3, <2>5, <3>2, <3>3, <3>4 DEF TypeOK
  <2> QED  BY <1>2, <2>5, <2>6 DEF Safe, Shown, NoForeignImage
<1> QED  BY <1>4, <1>5

-----------------------------------------------------------------------------
(* The handlers of a download are read.                                    *)

LEMMA CallStep ==
  ASSUME TypeOK, Safe, NEW d \in Load, Call(d)
  PROVE  TypeOK' /\ Safe'
<1>1. PICK ok \in BOOLEAN, bars \in BOOLEAN :
        /\ \/ downloads[d].stage = "running" /\ ~ ok
           \/ downloads[d].stage = "decoding" /\ bars = ~ ok
        /\ downloads' = [downloads EXCEPT ![d].stage = "called", ![d].ok = ok]
        /\ main' = Append(main, [of |-> "download", loads |-> downloads[d].handlers,
                                 ok |-> ok, bars |-> bars])
  BY DEF Call
<1>2. UNCHANGED <<user, image, load, loads, byUrl, memory, disk, failed, late>>
  BY DEF Call, cellVars, cacheVars
<1> DEFINE e == [downloads[d] EXCEPT !.stage = "called", !.ok = ok]
           b == [of |-> "download", loads |-> downloads[d].handlers,
                 ok |-> ok, bars |-> bars]
<1>3. /\ d \in 1..Len(downloads) /\ downloads[d] \in DownloadState /\ Active(d)
      /\ downloads \in Seq(DownloadState)
      /\ Len(downloads) \in Nat /\ Len(loads) \in Nat /\ Len(main) \in Nat
  BY <1>1, Sequences, CellImagesAssumption DEF Call, Load, Active, TypeOK
<1>4. /\ e \in DownloadState /\ e.url = downloads[d].url /\ e.stage = "called"
      /\ e.handlers = downloads[d].handlers /\ e.cancelled = downloads[d].cancelled
  BY <1>1, <1>3 DEF DownloadState
<1>5. b \in Block /\ b.of = "download" /\ b.loads = downloads[d].handlers
  BY <1>1, <1>3 DEF Block, DownloadState
<1>6. downloads' = [downloads EXCEPT ![d] = e] /\ main' = Append(main, b)
  BY <1>1
<1> HIDE DEF e, b
<1>7. /\ downloads' \in Seq(DownloadState)
      /\ Len(downloads)' = Len(downloads)
      /\ \A f \in 1..Len(downloads) : downloads'[f] = IF f = d THEN e ELSE downloads[f]
  BY ONLY <1>3, <1>4, <1>6, ExceptSeq
<1>8. /\ main' \in Seq(Block)
      /\ Len(main') = Len(main) + 1
      /\ \A i \in 1..Len(main') : (i \in 1..Len(main) /\ main'[i] = main[i])
                                   \/ (i = Len(main) + 1 /\ main'[i] = b)
      /\ \A l : InBlock(l)' <=> InBlock(l) \/ l \in b.loads
  BY <1>5, <1>6, Pushed
<1>9. \A l \in b.loads : l \in 1..Len(loads) /\ loads[l].stage = "download" /\ ~ InBlock(l)
  BY <1>3, <1>5 DEF Safe, HandlerStage
<1>10. \A f \in 1..Len(downloads) :
         /\ downloads'[f].url = downloads[f].url
         /\ downloads'[f].handlers = downloads[f].handlers
         /\ downloads'[f].cancelled = downloads[f].cancelled
         /\ downloads'[f].stage = IF f = d THEN "called" ELSE downloads[f].stage
  <2> TAKE f \in 1..Len(downloads)
  <2>1. CASE f = d
    <3>1. downloads'[f] = e
      BY <1>7, <2>1
    <3> QED  BY <1>4, <2>1, <3>1
  <2>2. CASE f # d
    <3>1. downloads'[f] = downloads[f]
      BY <1>7, <2>2
    <3> QED  BY <2>2, <3>1
  <2> QED  BY <2>1, <2>2
<1>11. \A f \in 1..Len(downloads) : Active(f)' => f # d /\ Active(f)
  <2> TAKE f \in 1..Len(downloads)
  <2>1. downloads'[f].stage = IF f = d THEN "called" ELSE downloads[f].stage
    BY <1>10
  <2> QED  BY <2>1 DEF Active
<1>12. BlockStage'
  BY <1>2, <1>5, <1>8, <1>9 DEF Safe, BlockStage, StageOf
<1>13. BlocksDisjoint'
  BY <1>8, <1>9 DEF Safe, BlocksDisjoint, InBlock
<1>14. HandlerStage'
  <2> SUFFICES ASSUME NEW f \in 1..Len(downloads), NEW l \in downloads[f].handlers
               PROVE  /\ l \in 1..Len(loads)
                      /\ loads[l].stage \in {"download", "done"}
                      /\ Active(f)' => loads[l].stage = "download" /\ ~ InBlock(l)'
                      /\ downloads'[f].stage = "called" =>
                           loads[l].stage = "done" \/ loads[l].cancelled
                           \/ InBlock(l)' \/ l \in late
    <3>1. \A f \in 1..Len(downloads) : downloads'[f].handlers = downloads[f].handlers
      BY <1>10
    <3> QED  BY <1>2, <1>7, <3>1 DEF HandlerStage
  <2>1. /\ l \in 1..Len(loads)
        /\ loads[l].stage \in {"download", "done"}
        /\ Active(f) => loads[l].stage = "download" /\ ~ InBlock(l)
        /\ downloads[f].stage = "called" =>
             loads[l].stage = "done" \/ loads[l].cancelled \/ InBlock(l) \/ l \in late
    BY DEF Safe, HandlerStage
  <2>2. CASE f = d
    <3>1. l \in b.loads /\ ~ Active(f)' /\ InBlock(l)'
      BY <1>5, <1>8, <1>11, <2>2
    <3> QED  BY <2>1, <3>1
  <2>3. CASE f # d
    <3>1. Active(f)' => l \notin b.loads
      BY <1>3, <1>5, <1>11, <2>3 DEF Safe, HandlersDisjoint
    <3>2. downloads'[f].stage = downloads[f].stage
      BY <1>10, <2>3
    <3> QED  BY <1>8, <1>11, <2>1, <2>3, <3>1, <3>2
  <2> QED  BY <2>2, <2>3
<1>15. HandlersDisjoint'
  BY <1>7, <1>10, <1>11 DEF Safe, HandlersDisjoint
<1>16. OnlyLateStranded'
  <2> SUFFICES ASSUME NEW l \in 1..Len(loads), loads[l].stage = "download",
                      ~ loads[l].cancelled, l \notin late
               PROVE  Awaited(l)'
    BY <1>2 DEF OnlyLateStranded, Stranded
  <2>1. Awaited(l)
    BY DEF Safe, OnlyLateStranded, Stranded
  <2>2. InBlock(l) => InBlock(l)'
    BY <1>8
  <2>3. CASE InBlock(l)
    BY <2>2, <2>3 DEF Awaited, InBlock
  <2>4. CASE \E f \in 1..Len(downloads) :
               l \in downloads[f].handlers /\ ~ downloads[f].cancelled
    <3>1. PICK f \in 1..Len(downloads) :
                 l \in downloads[f].handlers /\ ~ downloads[f].cancelled
      BY <2>4
    <3>2. l \in downloads'[f].handlers /\ ~ downloads'[f].cancelled
      BY <1>10, <3>1
    <3> QED  BY <1>7, <3>2 DEF Awaited
  <2> QED  BY <2>1, <2>3, <2>4 DEF Awaited, InBlock
<1>17. Counted' /\ Right' /\ Shown' /\ NoForeignImage'
  <2>1. Counted'
    BY <1>2, <1>7 DEF Safe, Counted, Used
  <2> QED  BY <1>2, <2>1, CellsKept
<1>18. TypeOK'
  <2>1. \A u \in Url : byUrl'[u] # 0 => downloads'[byUrl'[u]].url = u
    <3> TAKE u \in Url
    <3> HAVE byUrl'[u] # 0
    <3>1. byUrl'[u] = byUrl[u] /\ byUrl[u] \in 1..Len(downloads)
      BY <1>2, <1>3 DEF TypeOK
    <3>2. downloads[byUrl[u]].url = u
      BY <3>1 DEF TypeOK
    <3>3. downloads'[byUrl[u]].url = downloads[byUrl[u]].url
      BY <1>10, <3>1
    <3> QED  BY <3>1, <3>2, <3>3
  <2>2. \A f \in 1..Len(downloads)' :
          downloads'[f].stage = "finished" => downloads'[f].handlers = {}
    BY <1>7, <1>10 DEF TypeOK
  <2> QED  BY <1>2, <1>7, <1>8, <2>1, <2>2 DEF TypeOK
<1> QED  BY <1>12, <1>13, <1>14, <1>15, <1>16, <1>17, <1>18 DEF Safe

-----------------------------------------------------------------------------
(* The theorems.                                                           *)

LEMMA Initially == Init => TypeOK /\ Safe
<1> SUFFICES ASSUME Init
             PROVE  TypeOK /\ Safe
  OBVIOUS
<1>1. /\ loads = << >> /\ downloads = << >> /\ main = << >>
      /\ Len(loads) = 0 /\ Len(downloads) = 0 /\ Len(main) = 0
      /\ \A n \in 1..0 : FALSE
  BY DEF Init
<1>2. TypeOK
  BY <1>1, CellImagesAssumption DEF Init, TypeOK
<1>3. Counted
  <2>1. Used = {}
    BY <1>1 DEF Used
  <2> QED  BY <1>1, <2>1, FS_EmptySet DEF Counted
<1>4. Right /\ BlockStage /\ BlocksDisjoint /\ HandlerStage /\ HandlersDisjoint
      /\ OnlyLateStranded
  BY <1>1 DEF Right, BlockStage, BlocksDisjoint, HandlerStage, HandlersDisjoint,
     OnlyLateStranded
<1>5. Shown /\ NoForeignImage
  BY DEF Init, Shown, NoForeignImage
<1> QED  BY <1>2, <1>3, <1>4, <1>5 DEF Safe

LEMMA Step == TypeOK /\ Safe /\ [Next]_vars => TypeOK' /\ Safe'
<1> SUFFICES ASSUME TypeOK, Safe, [Next]_vars
             PROVE  TypeOK' /\ Safe'
  OBVIOUS
<1>1. CASE \E c \in Cell, u \in User :
             ConfigureKeeping(c, u) \/ ConfigureEmpty(c, u) \/ Configure(c, u)
  BY <1>1, ConfigureKeepingStep, ConfigureEmptyStep, ConfigureStep
<1>2. CASE RunMain
  BY <1>2, UseCachedStep, DownloadStep, UseDownloadedStep DEF RunMain
<1>3. CASE MemoryWarning
  BY <1>3, MemoryWarningStep
<1>4. CASE \E l \in Load : Query(l)
  BY <1>4, QueryStep
<1>5. CASE \E d \in Load : Progress(d)
  BY <1>5, StartStep, ReceiveStep, CallStep, DoneStep, SweepStep DEF Progress
<1>6. CASE UNCHANGED vars
  <2>1. UNCHANGED <<user, image, load, loads, downloads, byUrl, memory, disk, failed, main, late>>
    BY <1>6 DEF vars, cellVars, cacheVars
  <2>2. TypeOK'
    BY <2>1 DEF TypeOK
  <2>3. /\ \A k \in 1..Len(loads) : KeptLoad(k)
        /\ \A d \in 1..Len(downloads) : KeptDownload(d)
    BY <2>1 DEF KeptLoad, KeptDownload, Active
  <2>4. /\ BlockStage' /\ BlocksDisjoint' /\ HandlerStage' /\ HandlersDisjoint'
        /\ OnlyLateStranded' /\ Counted'
    BY <2>1, <2>3, Sequences, Kept
  <2> QED  BY <2>1, <2>2, <2>4, CellsKept DEF Safe
<1> QED  BY <1>1, <1>2, <1>3, <1>4, <1>5, <1>6 DEF Next

\* Every variable keeps its type, a URL leads to a download of its own, and a download
\* that has finished holds no handlers (SDWebImageDownloader.m, URLOperations).
THEOREM CellImagesTypeCorrect == Spec => []TypeOK
<1> QED  BY Initially, Step, PTL DEF Spec

\* No cell ever shows the image of a user it was configured for before, except a
\* UserCell whose present user has no URL (UserCell.swift:76), for any number of
\* cells, loads and shared downloads.
THEOREM NoForeignImageAlways == Spec => []NoForeignImage
<1>1. TypeOK /\ Safe => NoForeignImage
  BY DEF Safe
<1> QED  BY <1>1, Initially, Step, PTL DEF Spec

\* A cell that gives up a shared download never takes it from another: whoever is
\* left without an answer joined after the handlers had been read
\* (SDWebImageDownloaderOperation.m:233).
THEOREM OnlyLateStrandedAlways == Spec => []OnlyLateStranded
<1>1. TypeOK /\ Safe => OnlyLateStranded
  BY DEF Safe
<1> QED  BY <1>1, Initially, Step, PTL DEF Spec
=============================================================================

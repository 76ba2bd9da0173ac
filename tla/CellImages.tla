----------------------------- MODULE CellImages -----------------------------
(***************************************************************************)
(* The profile images of the cells (UserCell, ConversationsCell,           *)
(* MessageCell) and the loader behind sd_setImage: the image view of a     *)
(* cell, the loads of SDWebImageManager, the downloads of                  *)
(* SDWebImageDownloader that several loads share, and the two caches.      *)
(*                                                                         *)
(* Cells are reused: the same view is configured for one user after        *)
(* another, on the main thread, while loads for the earlier ones are on    *)
(* the disk queue, in a download, or in a block that waits for the main    *)
(* thread.                                                                 *)
(***************************************************************************)
EXTENDS Integers, Sequences

CONSTANTS
  Cell,       \* cells
  KeepsImage, \* those of them that return early for a user without a URL: UserCell
  User,       \* users
  Url,        \* URLs of images
  None,       \* no URL, no user, no image
  url,        \* the URL in the profile of each user, or None
  MaxLoads    \* bound: loads

ASSUME CellImagesAssumption ==
  /\ KeepsImage \subseteq Cell
  /\ None \notin User \cup Url
  /\ url \in [User -> Url \cup {None}]
  /\ MaxLoads \in Nat

Load == 1..MaxLoads

\* A load is on the disk queue, has its result, is in a download, or has ended.
LoadState == [cell : Cell, url : Url, stage : {"query", "found", "download", "done"},
              cancelled : BOOLEAN]

\* A download waits for its turn, runs, decodes, has read its handlers, or has
\* finished.  handlers: the loads that wait for it.  swept: has its completion
\* block run?  ok: did it bring an image?
DownloadState ==
  [url : Url, stage : {"waiting", "running", "decoding", "called", "finished"},
   handlers : SUBSET Load, cancelled : BOOLEAN, swept : BOOLEAN, ok : BOOLEAN]

\* Blocks for the main thread: the result of a query or of a download, for these
\* loads; bars: does the error put the URL on the list of failed ones?
Block == [of : {"query", "download"}, loads : SUBSET Load, ok : BOOLEAN, bars : BOOLEAN]

VARIABLES
  user,       \* user[c]: the user the cell c was configured for
  image,      \* image[c]: the URL of the image in c
  load,       \* load[c]: the operation registered with the view of c, or 0
  loads,      \* all loads made
  downloads,  \* all downloads made
  byUrl,      \* byUrl[u]: URLOperations, the download for u, or 0
  memory, disk,  \* the caches
  failed,     \* failedURLs
  main,       \* the queue of the main thread
  late        \* history: loads that joined a download that had read its handlers

cellVars == <<user, image, load>>
cacheVars == <<memory, disk, failed>>
vars == <<cellVars, loads, downloads, byUrl, cacheVars, main, late>>

-----------------------------------------------------------------------------
\* [operation cancel] on a download without handlers.
Stopped(d) ==
  IF d.stage = "finished" THEN [d EXCEPT !.handlers = {}]
  ELSE [d EXCEPT !.handlers = {}, !.cancelled = TRUE,
                 !.stage = IF @ = "running" THEN "finished" ELSE @]

\* The download the downloader finds for the load l when l is cancelled, or 0: it
\* looks under the URL.
Named(l) == IF l # 0 /\ loads[l].stage = "download" THEN byUrl[loads[l].url] ELSE 0

\* Mutant: a download is stopped with the first load that leaves it.
DownloadsStopped(l) ==
  [d \in DOMAIN downloads |->
    IF d = Named(l) THEN Stopped(downloads[d]) ELSE downloads[d]]

\* The load l leaves its download, which is stopped if it was the last one.
DownloadsWithout(l) ==
  [d \in DOMAIN downloads |->
    LET left == downloads[d].handlers \ {l} IN
    CASE d # Named(l) -> downloads[d]
      [] d = Named(l) /\ left = {} -> Stopped(downloads[d])
      [] d = Named(l) /\ left # {} -> [downloads[d] EXCEPT !.handlers = left]]

ByUrlWithout(l) ==
  IF Named(l) # 0 /\ downloads[Named(l)].handlers \subseteq {l}
  THEN [byUrl EXCEPT ![loads[l].url] = 0]
  ELSE byUrl

\* sd_cancelImageLoadOperationWithKey: a load that has ended is not known any more.
LoadsWithout(l) ==
  IF l # 0 /\ loads[l].stage # "done"
  THEN [loads EXCEPT ![l].cancelled = TRUE]
  ELSE loads

-----------------------------------------------------------------------------
Init ==
  /\ user = [c \in Cell |-> None]
  /\ image = [c \in Cell |-> None]
  /\ load = [c \in Cell |-> 0]
  /\ loads = << >> /\ downloads = << >>
  /\ byUrl = [u \in Url |-> 0]
  /\ memory = {} /\ failed = {}
  /\ disk \in SUBSET Url
  /\ main = << >>
  /\ late = {}

\* configure of a UserCell whose user has no URL: it returns before sd_setImage.
ConfigureKeeping(c, u) ==
  /\ c \in KeepsImage
  /\ url[u] = None
  /\ user' = [user EXCEPT ![c] = u]
  /\ UNCHANGED <<image, load, loads, downloads, byUrl, cacheVars, main, late>>

\* configure of any other cell for a user without a URL: the load is cancelled and
\* the image taken away.
ConfigureEmpty(c, u) ==
  /\ c \notin KeepsImage
  /\ url[u] = None
  /\ user' = [user EXCEPT ![c] = u]
  /\ image' = [image EXCEPT ![c] = None]
  /\ load' = [load EXCEPT ![c] = 0]
  /\ loads' = LoadsWithout(load[c])
  /\ downloads' = DownloadsWithout(load[c])
  /\ byUrl' = ByUrlWithout(load[c])
  /\ UNCHANGED <<cacheVars, main, late>>

\* configure for a user with a URL: after the former load and image, a new load.
\* A failed URL and an image in memory end it at once.
Configure(c, u) ==
  /\ url[u] # None
  /\ Len(loads) < MaxLoads
  /\ user' = [user EXCEPT ![c] = u]
  /\ image' = [image EXCEPT ![c] = IF url[u] \in memory \ failed THEN url[u] ELSE None]
  /\ load' = [load EXCEPT ![c] = Len(loads) + 1]
  /\ loads' = Append(LoadsWithout(load[c]),
       [cell |-> c, url |-> url[u], cancelled |-> FALSE,
        stage |-> IF url[u] \in memory \cup failed THEN "done" ELSE "query"])
  /\ downloads' = DownloadsWithout(load[c])
  /\ byUrl' = ByUrlWithout(load[c])
  /\ UNCHANGED <<cacheVars, main, late>>

\* The disk queue answers a query.  One that was cancelled is not answered.
Query(l) ==
  /\ l <= Len(loads)
  /\ loads[l].stage = "query"
  /\ LET found == loads[l].url \in disk IN
     IF loads[l].cancelled
     THEN /\ loads' = [loads EXCEPT ![l].stage = "done"]
          /\ UNCHANGED <<memory, main>>
     ELSE /\ loads' = [loads EXCEPT ![l].stage = "found"]
          /\ memory' = IF found THEN memory \cup {loads[l].url} ELSE memory
          /\ main' = Append(main, [of |-> "query", loads |-> {l}, ok |-> found,
                                   bars |-> FALSE])
  /\ UNCHANGED <<cellVars, downloads, byUrl, disk, failed, late>>

-----------------------------------------------------------------------------
\* Blocks on the main thread.

\* Mutant: the images are set also for loads that were cancelled meanwhile.
AllLoads(block) == block.loads

\* The loads of a block that were not cancelled meanwhile.
Live(block) == {l \in block.loads : ~ loads[l].cancelled}

Ended(S) == [l \in DOMAIN loads |->
              IF l \in S THEN [loads[l] EXCEPT !.stage = "done"] ELSE loads[l]]

\* The image of a load is set in its view.
ImagesOf(S) == [c \in Cell |-> IF \E l \in S : loads[l].cell = c
                               THEN loads[CHOOSE l \in S : loads[l].cell = c].url
                               ELSE image[c]]

\* The result of a query: the image is set, or the load is at an end.
UseCached ==
  /\ main # << >>
  /\ LET block == Head(main) IN
     /\ block.of = "query"
     /\ block.ok \/ Live(block) = {}
     /\ image' = ImagesOf(Live(block))
     /\ loads' = Ended(block.loads)
  /\ main' = Tail(main)
  /\ UNCHANGED <<user, load, downloads, byUrl, cacheVars, late>>

\* downloadImageWithURL: the load joins the download for its URL, unless that one
\* has finished or was cancelled.
Joinable(d) == d # 0 /\ downloads[d].stage # "finished" /\ ~ downloads[d].cancelled

\* Nothing was in the cache: the load gets a download.
Download ==
  /\ main # << >>
  /\ LET block == Head(main) IN
     /\ block.of = "query"
     /\ ~ block.ok
     /\ \E l \in Live(block) :
          LET u == loads[l].url
              d == byUrl[u]
          IN
          /\ loads' = [loads EXCEPT ![l].stage = "download"]
          /\ IF Joinable(d)
             THEN /\ downloads' = [downloads EXCEPT ![d].handlers = @ \cup {l}]
                  /\ late' = IF downloads[d].stage = "called" THEN late \cup {l} ELSE late
                  /\ UNCHANGED byUrl
             ELSE /\ downloads' = Append(downloads,
                       [url |-> u, stage |-> "waiting", handlers |-> {l},
                        cancelled |-> FALSE, swept |-> FALSE, ok |-> FALSE])
                  /\ byUrl' = [byUrl EXCEPT ![u] = Len(downloads) + 1]
                  /\ UNCHANGED late
  /\ main' = Tail(main)
  /\ UNCHANGED <<cellVars, cacheVars>>

\* The result of a download reaches the loads that waited for it: the image is
\* cached and set, or the URL may go on the list of failed ones.
UseDownloaded ==
  /\ main # << >>
  /\ LET block == Head(main)
         urls == {loads[l].url : l \in Live(block)}
     IN
     /\ block.of = "download"
     /\ loads' = Ended(block.loads)
     /\ IF block.ok
        THEN /\ image' = ImagesOf(Live(block))
             /\ memory' = memory \cup urls
             /\ disk' = disk \cup urls
             /\ UNCHANGED failed
        ELSE /\ failed' = IF block.bars THEN failed \cup urls ELSE failed
             /\ UNCHANGED <<image, memory, disk>>
  /\ main' = Tail(main)
  /\ UNCHANGED <<user, load, downloads, byUrl, late>>

-----------------------------------------------------------------------------
\* A download, on the queue of the downloader.

Start(d) ==
  /\ d <= Len(downloads)
  /\ downloads[d].stage = "waiting"
  /\ downloads' = IF downloads[d].cancelled
                  THEN [downloads EXCEPT ![d].stage = "finished", ![d].handlers = {}]
                  ELSE [downloads EXCEPT ![d].stage = "running"]
  /\ UNCHANGED <<cellVars, loads, byUrl, cacheVars, main, late>>

\* The data has come, to be decoded on a queue of its own.
Receive(d) ==
  /\ d <= Len(downloads)
  /\ downloads[d].stage = "running"
  /\ downloads' = [downloads EXCEPT ![d].stage = "decoding"]
  /\ UNCHANGED <<cellVars, loads, byUrl, cacheVars, main, late>>

\* callCompletionBlocks: the handlers are read and called on the main thread.  An
\* image that cannot be decoded bars the URL, an error of the network may.
Call(d) ==
  /\ d <= Len(downloads)
  /\ \E ok, bars \in BOOLEAN :
       /\ \/ downloads[d].stage = "running" /\ ~ ok
          \/ downloads[d].stage = "decoding" /\ bars = ~ ok
       /\ downloads' = [downloads EXCEPT ![d].stage = "called", ![d].ok = ok]
       /\ main' = Append(main, [of |-> "download", loads |-> downloads[d].handlers,
                                ok |-> ok, bars |-> bars])
  /\ UNCHANGED <<cellVars, loads, byUrl, cacheVars, late>>

\* done: all handlers are removed, those that came meanwhile as well.
Done(d) ==
  /\ d <= Len(downloads)
  /\ downloads[d].stage = "called"
  /\ downloads' = [downloads EXCEPT ![d].stage = "finished", ![d].handlers = {}]
  /\ UNCHANGED <<cellVars, loads, byUrl, cacheVars, main, late>>

\* The completion block of a download removes whatever is there for its URL.
Sweep(d) ==
  /\ d <= Len(downloads)
  /\ downloads[d].stage = "finished"
  /\ ~ downloads[d].swept
  /\ downloads' = [downloads EXCEPT ![d].swept = TRUE]
  /\ byUrl' = [byUrl EXCEPT ![downloads[d].url] = 0]
  /\ UNCHANGED <<cellVars, loads, cacheVars, main, late>>

\* A memory warning: the cache keeps, by weak references, what a view still holds.
MemoryWarning ==
  /\ memory' = {u \in memory : \E c \in Cell : image[c] = u}
  /\ memory' # memory
  /\ UNCHANGED <<cellVars, loads, downloads, byUrl, disk, failed, main, late>>

RunMain == UseCached \/ Download \/ UseDownloaded

Progress(d) == Start(d) \/ Receive(d) \/ Call(d) \/ Done(d) \/ Sweep(d)

Next ==
  \/ \E c \in Cell, u \in User :
       ConfigureKeeping(c, u) \/ ConfigureEmpty(c, u) \/ Configure(c, u)
  \/ RunMain \/ MemoryWarning
  \/ \E l \in Load : Query(l)
  \/ \E d \in Load : Progress(d)

Spec == Init /\ [][Next]_vars

\* The queues run, and a request to the network ends, if only by a timeout.
FairSpec ==
  /\ Spec
  /\ WF_vars(RunMain)
  /\ \A l \in Load : WF_vars(Query(l)) /\ WF_vars(Progress(l))

-----------------------------------------------------------------------------
(* Properties.                                                             *)

\* Every variable has its type; a URL leads to a download of its own; a download that
\* has finished holds no handlers.
TypeOK ==
  /\ user \in [Cell -> User \cup {None}]
  /\ image \in [Cell -> Url \cup {None}]
  /\ load \in [Cell -> 0..Len(loads)]
  /\ loads \in Seq(LoadState) /\ Len(loads) <= MaxLoads
  /\ downloads \in Seq(DownloadState) /\ Len(downloads) <= Len(loads)
  /\ byUrl \in [Url -> 0..Len(downloads)]
  /\ \A u \in Url : byUrl[u] # 0 => downloads[byUrl[u]].url = u
  /\ \A d \in 1..Len(downloads) :
        downloads[d].stage = "finished" => downloads[d].handlers = {}
  /\ memory \in SUBSET Url /\ disk \in SUBSET Url /\ failed \in SUBSET Url
  /\ main \in Seq(Block)
  /\ late \in SUBSET (1..Len(loads))

\* A cell shows no image of a user it was configured for before, however late the
\* answers to earlier loads come; except that a UserCell goes on to show it, or
\* even receives it, when its present user has no URL (UserCell.swift:76).
NoForeignImage ==
  \A c \in Cell : image[c] # None =>
    IF url[user[c]] = None THEN c \in KeepsImage ELSE image[c] = url[user[c]]

\* Somebody will still answer the load l.
Awaited(l) ==
  \/ \E d \in 1..Len(downloads) : l \in downloads[d].handlers /\ ~ downloads[d].cancelled
  \/ \E i \in 1..Len(main) : l \in main[i].loads

\* A load in a download that nobody will answer although its cell is waiting.
Stranded(l) == loads[l].stage = "download" /\ ~ loads[l].cancelled /\ ~ Awaited(l)

\* A cell that gives up a shared download does not take it from the others: only a
\* load that joined after the handlers had been read is left without an answer.
OnlyLateStranded == \A l \in 1..Len(loads) : Stranded(l) => l \in late

\* What the comment at SDWebImageDownloader.m:318 aims at: a handler attached to a
\* download that is under way is called.
HandlersCalled == \A l \in 1..Len(loads) : ~ Stranded(l)

Loading(c) == load[c] # 0 /\ loads[load[c]].stage # "done"

\* The image of a cell comes, or the attempt to load it fails, unless the load
\* joined too late: no other cell's doing and no failure leaves it without an end.
LoadEnds == \A c \in Cell : Loading(c) ~> ~ Loading(c) \/ load[c] \in late
=============================================================================

------------------------------ MODULE MCAssets ------------------------------
(* The life of an asset, searches for assets, their delivery, and the      *)
(* asset library.  They share no variable, so a behaviour is about one of  *)
(* them.  The number of requests of several steps to the library is        *)
(* bounded.                                                                *)
EXTENDS MCAssetPipeline, AssetSearch, AssetDelivery, AssetLibrary

CONSTANTS s1, s2, d, w, MaxLibraryRequests

VARIABLES
  side,    \* the part the behaviour is about
  begun    \* requests of several steps to the library begun so far

mcVars == <<vars, searchVars, deliveryVars, assetVars, side, begun>>

File(name, mime, ext, width, height) ==
  [name |-> name, mime |-> mime, ext |-> ext, width |-> width, height |-> height]
TwoFiles ==
  {File(<<"red">>, "image", "png", 640, 480),
   File(<<"deleted", "video", "1080p">>, "", "mp4", 0, 1080)}
ThreeSentences == {<<>>, <<"video", "1080p">>, <<"deleted">>}

AssetBegins == \E s \in LibrarySessions : areq[s] = AssetIdle /\ areq'[s] # AssetIdle
Count == begun' = begun + (IF AssetBegins THEN 1 ELSE 0) /\ begun' <= MaxLibraryRequests

(* The first library was created up to its first category. *)
OneLibrary ==
  /\ areq = [s \in LibrarySessions |-> AssetIdle] /\ issued = [lib |-> 1, cat |-> 1, item |-> 0]
  /\ libs = <<LibraryRow(d, FALSE)>> /\ items = <<>>
  /\ cats = <<CategoryRow(1, d, "image", FALSE)>>

MCInit ==
  /\ Init /\ SearchInit /\ DeliveryInit
  /\ side \in {"pipeline", "search", "delivery", "library"} /\ begun = 0
  /\ AssetInit \/ (side = "library" /\ OneLibrary)

MCNext ==
  /\ UNCHANGED side
  /\ \/ side = "pipeline" /\ Next /\ UNCHANGED <<searchVars, deliveryVars, assetVars, begun>>
     \/ side = "search" /\ SearchNext /\ UNCHANGED <<vars, deliveryVars, assetVars, begun>>
     \/ side = "delivery" /\ DeliveryNext /\ UNCHANGED <<vars, searchVars, assetVars, begun>>
     \/ side = "library" /\ AssetNext /\ Count /\ UNCHANGED <<vars, searchVars, deliveryVars>>
MCSpec == MCInit /\ [][MCNext]_mcVars

Symmetric == WorkerSymmetry \cup Permutations(LibrarySessions)
=============================================================================

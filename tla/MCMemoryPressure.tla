-------------------------- MODULE MCMemoryPressure --------------------------
(* Two blocks: one held by a white-list application and an important one,  *)
(* one held by a white-list application alone; a third of an application   *)
(* that is not on the list.                                                *)
EXTENDS MemoryPressure

MCUsers  == {100}
MCLines  == <<[app |-> "news", adj |-> 400, block |-> "shared"],
              [app |-> "news", adj |-> 400, block |-> "own"],
              [app |-> "bank", adj |-> 800, block |-> "bank"],
              [app |-> "call", adj |-> 200, block |-> "shared"]>>
MCSizeKB == [shared |-> 1, own |-> 1, bank |-> 1]
MCConfig == [level |-> [purgeable |-> 2, moderate |-> 1, low |-> 1, critical |-> 0],
             purge |-> {"news"}]
=============================================================================

------------------------ MODULE MCStorageController ------------------------
(* Instances of StorageController: one storage filled by an image, or a     *)
(* second one copied from the first.                                        *)
EXTENDS StorageController, TLC
CONSTANTS s1, s2

FromImage == s1 :> {"image"}
CopyOfEmpty == s1 :> {"none"} @@ s2 :> {s1}

NoEdits == [s \in Storages |-> 0]
EditFirst == [s \in Storages |-> IF s = s1 THEN 1 ELSE 0]
=============================================================================

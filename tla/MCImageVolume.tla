--------------------------- MODULE MCImageVolume ----------------------------
(***************************************************************************)
(* Small instances of ImageVolume for TLC, in an image of eight places     *)
(* that may grow by one.                                                   *)
(***************************************************************************)
EXTENDS ImageVolume, FloppyImage

FileLen == 8

(* A floppy of four tracks of one sector of 1024 bytes: places 2-3, 6-7    *)
(* and 4-5, with headers before them, and a last track that was never      *)
(* formatted.  A second entry for sector 1 is passed over, and so is one   *)
(* that leaves the file.                                                   *)
Geometry == [total |-> 4, spt |-> 1, heads |-> 2, k |-> 2,
             res |-> 1, nfats |-> 1, fsz |-> 1, root |-> 1]
Sector(off) == [r |-> 1, size |-> Geometry.k, off |-> off]
Tracks == [t \in 0..3 |->
    Added(CASE t = 0 -> <<Sector(2), Sector(0)>> [] t = 1 -> <<Sector(6)>>
            [] t = 2 -> <<Sector(4)>> [] t = 3 -> <<Sector(7)>>, FileLen)]

(* The floppy's boot block counts in blocks of 512 bytes, its FAT does not *)
(* repeat the media byte.                                                  *)
Patch(b) == [block |-> b, idx |-> 0, orig |-> 1, virt |-> 0]
Floppy == [kind |-> "floppy", secs |-> Geometry.total, k |-> Geometry.k, off |-> 0,
           map |-> FdMap(Tracks, Geometry),
           patches |-> FdPatches(Geometry, {Patch(0)}, [f \in {0} |-> 1], 0)]

ASSUME FloppyUsable == FdUsable(Floppy.map, Geometry)

(* A hard disk volume after a header, in sectors of 1024 bytes, before     *)
(* another partition; and one that is shown as it is, with one more block  *)
(* of the file after it.                                                   *)
Hdd == [kind |-> "hdd", secs |-> 2, k |-> 2, off |-> 2, map |-> <<>>,
        patches |-> {Patch(0)}]
Plain == [kind |-> "plain", secs |-> 4, k |-> 1, off |-> 3, map |-> <<>>, patches |-> {}]

MCFiles == {[q \in Places |-> [i \in Idx |-> 1]]}
MCVolumes == {Floppy, Hdd, Plain}
=============================================================================

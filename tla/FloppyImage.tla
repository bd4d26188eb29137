---------------------------- MODULE FloppyImage -----------------------------
(***************************************************************************)
(* Where the sectors of a floppy are in its image file, as open_fd() of    *)
(* src/main/usb_image.cpp finds out.  Offsets and sizes are counted in     *)
(* blocks of 512 bytes.                                                    *)
(*                                                                         *)
(* The loaders of the formats (HDM, D88, NFD, FDI) each list the sectors   *)
(* of every track as the file has them; a list is a track here.            *)
(***************************************************************************)
EXTENDS Integers, Sequences

FD_MISSING == -1        \* 0xffffffff
FD_TRACKS == 164
FD_MAXSEC == 64

(* fd_add(): a sector that leaves the file, and the 65th of a track, are   *)
(* not taken.                                                              *)
Added(track, len) ==
    LET inside == SelectSeq(track, LAMBDA s : s.size > 0 /\ s.off + s.size <= len)
    IN  SubSeq(inside, 1, IF Len(inside) < FD_MAXSEC THEN Len(inside) ELSE FD_MAXSEC)

(* fd_find(): the first sector of the number and size asked for.           *)
Find(tracks, t, r, size) ==
    LET hits == IF t < FD_TRACKS /\ t \in DOMAIN tracks
                THEN SelectSeq(tracks[t], LAMBDA s : s.r = r /\ s.size = size) ELSE <<>>
    IN  IF hits = <<>> THEN FD_MISSING ELSE Head(hits).off

(* The table of open_fd(): logical sectors of the geometry g.  Tracks are  *)
(* numbered as for two heads whatever the disk has.                        *)
FdMap(tracks, g) ==
    [lba \in 0..(g.total - 1) |->
        LET t == lba \div g.spt
        IN  Find(tracks, (t \div g.heads) * 2 + (t % g.heads), (lba % g.spt) + 1, g.k)]

(* The FATs and the root directory must be there.                          *)
SystemSectors(g) == g.res + g.nfats * g.fsz + g.root

FdUsable(map, g) ==
    /\ SystemSectors(g) < g.total
    /\ \A s \in 0..(SystemSectors(g) - 1) : map[s] # FD_MISSING

(* vol_translate(): the byte of each FAT that does not repeat the media    *)
(* byte of the boot sector is shown as if it did; boot are the bytes of    *)
(* the boot sector counted in sectors of another size.                     *)
FdPatches(g, boot, fat0, media) ==
    boot \cup {[block |-> (g.res + f * g.fsz) * g.k, idx |-> 0, orig |-> fat0[f], virt |-> media] :
                   f \in {f \in 0..(g.nfats - 1) : fat0[f] # media}}
=============================================================================

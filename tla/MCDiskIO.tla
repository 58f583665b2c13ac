------------------------------ MODULE MCDiskIO ------------------------------
(* Two partitions of one disk, of 2-unit and 1-unit blocks, behind a unit of *)
(* neither; numbers of 4 bits, and the block sizes of the real build.        *)
EXTENDS DiskIO, TLC
CONSTANTS p, q
MCSize == p :> 4 @@ q :> 2
MCBlockSize == p :> 2 @@ q :> 1
MCCodes == {EXT2_ET_BASE, EXT2_ET_FILE_NOT_FOUND, EXT2_ET_DIR_NO_SPACE, EXT2_ET_SYMLINK_LOOP,
            EXT2_ET_EA_KEY_NOT_FOUND, EXT2_ET_UNIMPLEMENTED, EXT2_ET_BASE + 177}
MCOffset == p :> 3 @@ q :> 1
=============================================================================

------------------------------- MODULE Errors -------------------------------
(***************************************************************************)
(* Error codes: those of libext2fs as src/ext2fs.h defines them, the table *)
(* of __translate_error in src/glue.c, and the errnos that lib/wasi.js has *)
(* a name for.                                                             *)
(***************************************************************************)
EXTENDS Integers

\* The codes of libext2fs lie above every errno.
EXT2_ET_BASE == 2133571328
Ext2Codes == EXT2_ET_BASE .. EXT2_ET_BASE + 177

EXT2_ET_MAGIC_EXT2_FILE  == EXT2_ET_BASE + 15
EXT2_ET_DIR_NO_SPACE     == EXT2_ET_BASE + 38
EXT2_ET_TOOSMALL         == EXT2_ET_BASE + 44
EXT2_ET_SYMLINK_LOOP     == EXT2_ET_BASE + 64
EXT2_ET_LLSEEK_FAILED    == EXT2_ET_BASE + 69
EXT2_ET_NO_MEMORY        == EXT2_ET_BASE + 70
EXT2_ET_INVALID_ARGUMENT == EXT2_ET_BASE + 71
EXT2_ET_BLOCK_ALLOC_FAIL == EXT2_ET_BASE + 72
EXT2_ET_INODE_ALLOC_FAIL == EXT2_ET_BASE + 73
EXT2_ET_NO_DIRECTORY     == EXT2_ET_BASE + 74
EXT2_ET_FILE_NOT_FOUND   == EXT2_ET_BASE + 76
EXT2_ET_UNIMPLEMENTED    == EXT2_ET_BASE + 80
EXT2_ET_FILE_TOO_BIG     == EXT2_ET_BASE + 82
EXT2_ET_TDB_ERR_OOM      == EXT2_ET_BASE + 100
EXT2_ET_TDB_ERR_EXISTS   == EXT2_ET_BASE + 101
EXT2_ET_MMP_FAILED       == EXT2_ET_BASE + 139
EXT2_ET_MMP_FSCK_ON      == EXT2_ET_BASE + 140
EXT2_ET_FILE_EXISTS      == EXT2_ET_BASE + 155
EXT2_ET_EA_KEY_NOT_FOUND == EXT2_ET_BASE + 162
EXT2_ET_EA_NO_SPACE      == EXT2_ET_BASE + 163

\* Errnos of the C library of emscripten, which are those of WASI as far as
\* WASI has them (1 to 76).
EBUSY      == 10
EEXIST     == 20
EFAULT     == 21
EFBIG      == 22
EINVAL     == 28
EIO        == 29
EMLINK     == 34
ENOENT     == 44
ENOMEM     == 48
ENOSPC     == 51
ENOTDIR    == 54
ENODATA    == 116
EOPNOTSUPP == 138

\* What lib/wasi.js can name; the rest is 'UNKNOWN' to the program.
ERRNO_TO_CODE == (1 .. 75) \ {58}

-----------------------------------------------------------------------------
\* The switch of __translate_error: the result by code.
Switch(err) ==
    CASE err \in {EXT2_ET_NO_MEMORY, EXT2_ET_TDB_ERR_OOM}          -> -ENOMEM
      [] err \in {EXT2_ET_INVALID_ARGUMENT, EXT2_ET_LLSEEK_FAILED} -> -EINVAL
      [] err = EXT2_ET_NO_DIRECTORY                                -> -ENOTDIR
      [] err = EXT2_ET_FILE_NOT_FOUND                              -> -ENOENT
      [] err \in {EXT2_ET_DIR_NO_SPACE, EXT2_ET_TOOSMALL, EXT2_ET_EA_NO_SPACE,
                  EXT2_ET_BLOCK_ALLOC_FAIL, EXT2_ET_INODE_ALLOC_FAIL} -> -ENOSPC
      [] err = EXT2_ET_SYMLINK_LOOP                                -> -EMLINK
      [] err = EXT2_ET_FILE_TOO_BIG                                -> -EFBIG
      [] err \in {EXT2_ET_TDB_ERR_EXISTS, EXT2_ET_FILE_EXISTS}     -> -EEXIST
      [] err \in {EXT2_ET_MMP_FAILED, EXT2_ET_MMP_FSCK_ON}         -> -EBUSY
      [] err = EXT2_ET_EA_KEY_NOT_FOUND                            -> -ENODATA
      [] err = EXT2_ET_MAGIC_EXT2_FILE                             -> -EFAULT
      [] err = EXT2_ET_UNIMPLEMENTED                               -> -EOPNOTSUPP
      [] OTHER                                                     -> -EIO

\* Every code that the switch has a case for.
Cases == {EXT2_ET_NO_MEMORY, EXT2_ET_TDB_ERR_OOM, EXT2_ET_INVALID_ARGUMENT,
          EXT2_ET_LLSEEK_FAILED, EXT2_ET_NO_DIRECTORY, EXT2_ET_FILE_NOT_FOUND,
          EXT2_ET_DIR_NO_SPACE, EXT2_ET_TOOSMALL, EXT2_ET_EA_NO_SPACE,
          EXT2_ET_BLOCK_ALLOC_FAIL, EXT2_ET_INODE_ALLOC_FAIL, EXT2_ET_SYMLINK_LOOP,
          EXT2_ET_FILE_TOO_BIG, EXT2_ET_TDB_ERR_EXISTS, EXT2_ET_FILE_EXISTS,
          EXT2_ET_MMP_FAILED, EXT2_ET_MMP_FSCK_ON, EXT2_ET_EA_KEY_NOT_FOUND,
          EXT2_ET_MAGIC_EXT2_FILE, EXT2_ET_UNIMPLEMENTED}

\* is_err: the error may mean damage, and the superblock is to be written.
IsErr(err) == err \in Ext2Codes \ (Cases \ {EXT2_ET_DIR_NO_SPACE})

\* __translate_error: what is below EXT2_ET_BASE is not translated.
TranslateError(err) == IF err < EXT2_ET_BASE THEN err ELSE Switch(err)
=============================================================================

--------------------------- MODULE PieceAccessor ---------------------------
(***************************************************************************)
(* run_with_file_regions: a block of a torrent is cut into regions of the  *)
(* files that hold it, one turn of the loop per file.  read_piece and      *)
(* write_piece run a callback on every region, which may fail.             *)
(***************************************************************************)
EXTENDS Integers, Sequences

CONSTANTS
    FileLists,   \* sequences of file lengths of the torrents considered
    Positions,   \* piece_index * piece_length + block_offset
    Lengths      \* lengths of blocks

ASSUME AccessorAssumption ==
    /\ FileLists \subseteq Seq(Nat)
    /\ Positions \subseteq Nat
    /\ Lengths \subseteq Nat

VARIABLES
    files, position, block_length,   \* the arguments
    i,                               \* files passed
    total_bytes_to_skip,
    total_bytes_accessed,
    regions,                         \* calls of the callback, in order
    result,                          \* "running", "ok" or "err"
    start                            \* history: length of the files passed

args == <<files, position, block_length>>
accessorVars == <<args, i, total_bytes_to_skip, total_bytes_accessed, regions, result, start>>

Region == [file : Nat, offset : Nat, begin : Nat, end : Nat, address : Nat]

Smaller(a, b) == IF a < b THEN a ELSE b

AccessorInit ==
    /\ files \in FileLists /\ position \in Positions /\ block_length \in Lengths
    /\ i = 0
    /\ total_bytes_to_skip = position
    /\ total_bytes_accessed = 0
    /\ regions = << >>
    /\ result = "running"
    /\ start = 0

Skipped == Smaller(total_bytes_to_skip, files[i + 1])

(* Mutant: the skipped bytes are not taken off the file.                    *)
BytesToAccessUnskipped == files[i + 1]

(* What is left of the file after skipping up to the block.                 *)
BytesToAccess == files[i + 1] - Skipped

ActualBytesToAccess == Smaller(block_length - total_bytes_accessed, BytesToAccess)

(* callback(...)?: an error returns from the loop.                          *)
Callback(length) ==
    \/ result' = "running" /\ total_bytes_accessed' = total_bytes_accessed + length
    \/ result' = "err" /\ UNCHANGED total_bytes_accessed

(* One turn of the loop.                                                    *)
NextFile ==
    /\ result = "running" /\ i < Len(files)
    /\ i' = i + 1
    /\ total_bytes_to_skip' = total_bytes_to_skip - Skipped
    /\ start' = start + files[i + 1]
    /\ IF BytesToAccess > 0 /\ total_bytes_accessed < block_length
         THEN LET offset == files[i + 1] - BytesToAccess IN
              /\ regions' = Append(regions,
                               [file |-> i + 1, offset |-> offset,
                                begin |-> total_bytes_accessed,
                                end |-> total_bytes_accessed + ActualBytesToAccess,
                                address |-> start + offset])
              /\ Callback(ActualBytesToAccess)
         ELSE UNCHANGED <<regions, result, total_bytes_accessed>>
    /\ UNCHANGED args

Return ==
    /\ result = "running" /\ i = Len(files)
    /\ result' = "ok"
    /\ UNCHANGED <<args, i, total_bytes_to_skip, total_bytes_accessed, regions, start>>

AccessorNext == NextFile \/ Return

AccessorSpec == AccessorInit /\ [][AccessorNext]_accessorVars

-----------------------------------------------------------------------------
AccessorTypeOK ==
    /\ files \in Seq(Nat) /\ position \in Nat /\ block_length \in Nat
    /\ i \in 0 .. Len(files)
    /\ total_bytes_to_skip \in Nat
    /\ total_bytes_accessed \in 0 .. block_length
    /\ regions \in Seq(Region)
    /\ result \in {"running", "ok", "err"}
    /\ start \in Nat

(* Every region holds the bytes of the torrent that belong at its place in  *)
(* the block, inside its file.                                              *)
RegionsAddressBlock ==
    \A k \in DOMAIN regions : LET r == regions[k] IN
        /\ r.address = position + r.begin
        /\ r.begin < r.end /\ r.end <= block_length
        /\ r.file \in DOMAIN files
        /\ r.offset + (r.end - r.begin) <= files[r.file]

(* The regions follow one another in the buffer without gap or overlap.     *)
RegionsTileBuffer ==
    /\ \A k \in DOMAIN regions :
          regions[k].begin = IF k = 1 THEN 0 ELSE regions[k - 1].end
    /\ result # "err" => total_bytes_accessed = IF regions = << >> THEN 0
                                                ELSE regions[Len(regions)].end

(* A loop that ends without an error has accessed the whole block, or all   *)
(* of it that lies within the files.                                        *)
WholeBlockAccessed ==
    result = "ok" =>
        total_bytes_accessed = Smaller(block_length,
                                       IF start > position THEN start - position ELSE 0)

(* run_with_file_regions gives the callback the bytes of the block: at      *)
(* their place in the torrent, in order, and all of them.                   *)
BlockIsAccessed == RegionsAddressBlock /\ RegionsTileBuffer /\ WholeBlockAccessed

=============================================================================

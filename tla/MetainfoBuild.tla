---------------------------- MODULE MetainfoBuild ----------------------------
(***************************************************************************)
(* MetainfoBuilder: the settings of a file to write, and the value that    *)
(* build writes for the files an accessor gives it.  Each setter may be    *)
(* called again, with a value or with none.                                *)
(***************************************************************************)
EXTENDS MetainfoFile

CONSTANTS
    Texts,          \* comments, names and urls
    Dates,          \* creation dates
    PieceLengths,   \* custom piece lengths
    Sources,        \* what is built: [path, is_dir, entries], see FileAccessor
    Values,         \* what another program may write in a field
    Totals,         \* total sizes of files
    MaxSetters      \* bound: calls of setters before build

VARIABLES
    mbuilder,       \* the builder
    asked,          \* the last argument of each setter
    built,          \* the value that was written, at most one
    source          \* what it was written for

metainfoVars == <<mbuilder, asked, built, source>>

-----------------------------------------------------------------------------
(* The builder: its state is [root, info, piece_length], where root and    *)
(* info are dictionaries and a custom piece length is a number.            *)

MetainfoBuilder == [root |-> EmptyDict, info |-> EmptyDict, piece_length |-> [opt |-> "OptBalanced"]]

(* Some value is inserted, none removes the key.                           *)
SetKey(dict, key, values, Wrap(_)) ==
    Entry(key, values, Wrap) @@ [k \in DOMAIN dict \ {key} |-> dict[k]]

ben_trackers(groups) ==
    ben_list([k \in DOMAIN groups |-> ben_list([j \in DOMAIN groups[k] |-> ben_bytes(groups[k][j])])])

set_trackers(b, trackers) == [b EXCEPT !.root = SetKey(@, "announce-list", trackers, ben_trackers)]

(* Mutant: none leaves the url that was there.                             *)
set_main_tracker_keep(b, url) == [b EXCEPT !.root = Entry("announce", url, ben_bytes) @@ @]

set_main_tracker(b, url) == [b EXCEPT !.root = SetKey(@, "announce", url, ben_bytes)]
set_creation_date(b, secs) == [b EXCEPT !.root = SetKey(@, "creation date", secs, ben_int)]
set_comment(b, comment) == [b EXCEPT !.root = SetKey(@, "comment", comment, ben_bytes)]
set_created_by(b, name) == [b EXCEPT !.root = SetKey(@, "created by", name, ben_bytes)]
set_piece_length(b, length) == [b EXCEPT !.piece_length = length]

(* The flag is inserted, and as insert returns the value it replaced, it   *)
(* is removed again where there was none.                                  *)
set_private_flag(b, private) ==
    LET absent == "private" \notin DOMAIN b.info
        inserted == SetKey(b.info, "private", private, LAMBDA p : ben_int(IF p THEN 1 ELSE 0))
    IN  [b EXCEPT !.info = IF absent THEN @ ELSE inserted]

get_trackers(b) == {convert_announce_list(l) : l \in parse_announce_list(b.root)}
get_main_tracker(b) == parse_announce_url(b.root)
get_creation_date(b) == parse_creation_date(b.root)
get_comment(b) == parse_comment(b.root)
get_created_by(b) == parse_created_by(b.root)

-----------------------------------------------------------------------------
(* Accessors: [directory, files, data] with a file for each call of        *)
(* access_metadata's callback and its contents for each of access_pieces'. *)

entry_file_filter(entries) == SelectSeq(entries, LAMBDA e : e.file)

(* A tree on disk: path and the paths of its entries are absolute.         *)
FileAccessor(tree) ==
    LET skip == IF tree.is_dir THEN Len(tree.path) ELSE Len(tree.path) - 1
        entries == entry_file_filter(tree.entries)
    IN  [directory |-> IF tree.is_dir THEN {Last(tree.path)} ELSE {},
         files |-> [k \in DOMAIN entries |->
            [len |-> Len(entries[k].bytes), path |-> SubSeq(entries[k].path, skip + 1, Len(entries[k].path))]],
         data |-> [k \in DOMAIN entries |-> entries[k].bytes]]

DirectAccessor(name, contents) ==
    [directory |-> {}, files |-> <<[len |-> Len(contents), path |-> Components(name)]>>, data |-> <<contents>>]

(* SHA-1, which tells short pieces apart.                                  *)
Sha(s) == [k \in 1 .. SHA_HASH_LEN |-> IF k <= Len(s) THEN s[k] ELSE IF k = SHA_HASH_LEN THEN Len(s) ELSE 0]

(* What the hash workers compute: the files one after the other, cut in    *)
(* pieces.                                                                 *)
PieceHashes(data, length) ==
    LET all == FlattenSeq(data)
    IN  [k \in 1 .. ((Len(all) + length - 1) \div length) |->
            Sha(SubSeq(all, (k - 1) * length + 1, IF k * length < Len(all) THEN k * length ELSE Len(all)))]

-----------------------------------------------------------------------------
(* Piece lengths                                                           *)

ALL_OPT_MAX_PIECE_LENGTH == 16 * 1024 * 1024
MaxPiecesSize == [OptBalanced |-> 40000, OptFileSize |-> 20000, OptTransfer |-> 60000]
MinPieceLength == [OptBalanced |-> 512 * 1024, OptFileSize |-> 1024 * 1024, OptTransfer |-> 1024]

PowersOfTwo == {2^k : k \in 0 .. 30}
NextPowerOfTwo(n) == CHOOSE p \in PowersOfTwo : p >= n /\ (p = 1 \/ p \div 2 < n)

(* Mutant: the size is rounded down to a power of two.                     *)
calculate_piece_length_down(total, max_pieces_size, min_piece_length) ==
    LET num_pieces == max_pieces_size \div SHA_HASH_LEN
        pot == NextPowerOfTwo((2 * total + num_pieces) \div (2 * num_pieces)) \div 2
    IN  IF pot <= min_piece_length THEN min_piece_length
        ELSE IF pot < ALL_OPT_MAX_PIECE_LENGTH THEN pot
        ELSE ALL_OPT_MAX_PIECE_LENGTH

(* The quotient is rounded to the nearest integer.                         *)
calculate_piece_length(total, max_pieces_size, min_piece_length) ==
    LET num_pieces == max_pieces_size \div SHA_HASH_LEN
        pot == NextPowerOfTwo((2 * total + num_pieces) \div (2 * num_pieces))
    IN  IF pot <= min_piece_length THEN min_piece_length
        ELSE IF pot < ALL_OPT_MAX_PIECE_LENGTH THEN pot
        ELSE ALL_OPT_MAX_PIECE_LENGTH

determine_piece_length(total, piece_length) ==
    IF "custom" \in DOMAIN piece_length THEN piece_length.custom
    ELSE calculate_piece_length(total, MaxPiecesSize[piece_length.opt], MinPieceLength[piece_length.opt])

-----------------------------------------------------------------------------
(* build_with_accessor                                                     *)

total_files_len(files) == FoldLeft(LAMBDA acc, f : acc + f.len, 0, files)

BencodeFiles(files) ==
    ben_list([k \in DOMAIN files |->
        ben_map([length |-> ben_int(files[k].len),
                 path |-> ben_list([j \in DOMAIN files[k].path |-> ben_bytes(files[k].path[j])])])])

(* A directory, or more than one file, makes a multi file torrent.         *)
InfoFiles(accessor) ==
    IF accessor.directory # {}
    THEN [name |-> ben_bytes(CHOOSE d \in accessor.directory : TRUE), files |-> BencodeFiles(accessor.files)]
    ELSE IF Len(accessor.files) > 1 THEN [name |-> ben_bytes(<<>>), files |-> BencodeFiles(accessor.files)]
    ELSE [name |-> ben_bytes(FlattenSeq(accessor.files[1].path)), length |-> ben_int(accessor.files[1].len)]

(* The hashes of the pieces, of the data or as the accessor has them.      *)
AccessPieces(accessor, length) ==
    IF "pieces" \in DOMAIN accessor THEN accessor.pieces ELSE PieceHashes(accessor.data, length)

(* No number of pieces fits a length of zero, which an assertion excludes. *)
build_with_accessor(b, accessor) ==
    LET length == determine_piece_length(total_files_len(accessor.files), b.piece_length)
        info == InfoFiles(accessor) @@ [k \in {"piece length"} |-> ben_int(length)]
                @@ [pieces |-> ben_bytes(FlattenSeq(AccessPieces(accessor, length)))] @@ b.info
    IN  IF length = 0 THEN Err("Panic")
        ELSE Ok(ben_map([info |-> ben_map(info)] @@ b.root))

Accessor(from) == IF "contents" \in DOMAIN from THEN DirectAccessor(from.name, from.contents) ELSE FileAccessor(from)

Build(b, from) == build_with_accessor(b, Accessor(from))

(* Mutant: the number of files decides whether there is a directory.       *)
InfoAccessorCounted(info) ==
    [directory |-> IF Len(info.files) = 1 THEN {} ELSE info.file_directory, files |-> info.files, pieces |-> info.pieces]

(* Metainfo::to_bytes: a new builder, given what it has setters for, over  *)
(* the hashes that were read.                                              *)
InfoAccessor(info) == [directory |-> info.file_directory, files |-> info.files, pieces |-> info.pieces]

to_bytes(m) ==
    LET rooted == set_created_by(set_comment(set_creation_date(set_main_tracker(MetainfoBuilder,
                    m.announce), m.creation_date), m.comment), m.created_by)
        b == set_piece_length(set_private_flag(rooted, m.info.is_private), [custom |-> m.info.piece_len])
    IN  build_with_accessor(b, InfoAccessor(m.info))

-----------------------------------------------------------------------------
MetainfoInit ==
    /\ mbuilder = MetainfoBuilder
    /\ asked = [trackers |-> {}, announce |-> {}, date |-> {}, comment |-> {}, created_by |-> {}, private |-> {},
                length |-> [opt |-> "OptBalanced"], calls |-> 0]
    /\ built = {}
    /\ source = {}

Opt(S) == {{}} \cup {{x} : x \in S}

Setter(field, value, b) ==
    /\ built = {}
    /\ asked.calls < MaxSetters
    /\ mbuilder' = b
    /\ asked' = [asked EXCEPT ![field] = value, !.calls = @ + 1]
    /\ UNCHANGED <<built, source>>

SetTrackers == \E t \in Opt({<<>>} \cup {<<<<x>>>> : x \in Texts} \cup {<<<<x>>, <<y, x>>>> : x, y \in Texts}) :
    Setter("trackers", t, set_trackers(mbuilder, t))
SetMainTracker == \E u \in Opt(Texts) : Setter("announce", u, set_main_tracker(mbuilder, u))
SetCreationDate == \E d \in Opt(Dates) : Setter("date", d, set_creation_date(mbuilder, d))
SetComment == \E c \in Opt(Texts) : Setter("comment", c, set_comment(mbuilder, c))
SetCreatedBy == \E c \in Opt(Texts) : Setter("created_by", c, set_created_by(mbuilder, c))
SetPrivateFlag == \E p \in Opt(BOOLEAN) : Setter("private", p, set_private_flag(mbuilder, p))
SetPieceLength == \E l \in [custom : PieceLengths] \cup [opt : DOMAIN MaxPiecesSize] :
    Setter("length", l, set_piece_length(mbuilder, l))

BuildFile == \E from \in Sources :
    /\ built = {}
    /\ built' = {Build(mbuilder, from)}
    /\ source' = {from}
    /\ UNCHANGED <<mbuilder, asked>>

(* Another program wrote the file: a field of the root, of the info        *)
(* dictionary or of a file has another value, or is missing.               *)
Fields == {"info", "announce-list", "announce", "encoding", "piece length", "pieces", "private", "name", "files", "length",
           "md5sum", "path", "unknown"}

Change(dict, key, values) == ben_map(SetKey(dict, key, values, LAMBDA v : v))

Altered(v, field, values) ==
    LET info == v.dict.info.dict
    IN  {Change(v.dict, field, values), Change(v.dict, "info", {Change(info, field, values)})}
        \cup IF "files" \notin DOMAIN info THEN {}
             ELSE {Change(v.dict, "info", {Change(info, "files",
                    {ben_list([info.files.list EXCEPT ![k] = Change(@.dict, field, values)])})}) :
                    k \in DOMAIN info.files.list}

AlterFile ==
    /\ asked.calls < MaxSetters
    /\ built # {}
    /\ source # {}
    /\ \E v \in built, field \in Fields, values \in Opt(Values) :
        /\ ~Failed(v)
        /\ built' \in {{Ok(w)} : w \in Altered(v.ok, field, values)}
    /\ source' = {}
    /\ UNCHANGED <<mbuilder, asked>>

MetainfoNext ==
    \/ SetTrackers \/ SetMainTracker \/ SetCreationDate \/ SetComment \/ SetCreatedBy \/ SetPrivateFlag
    \/ SetPieceLength \/ BuildFile \/ AlterFile

(* Setters in any order, then one build.                                   *)
MetainfoSpec == MetainfoInit /\ [][MetainfoNext]_metainfoVars

-----------------------------------------------------------------------------
ReadAsAsked(m, a) ==
    /\ <<m.announce_list, m.announce, m.comment, m.created_by, m.creation_date>>
        = <<asked.trackers, asked.announce, asked.comment, asked.created_by, asked.date>>
    /\ m.info.piece_len = determine_piece_length(total_files_len(a.files), asked.length)
    /\ m.info.pieces = PieceHashes(a.data, m.info.piece_len)
    /\ m.info.file_directory = IF a.directory = {} /\ Len(a.files) > 1 THEN {<<>>} ELSE a.directory
    /\ Len(m.info.files) = Len(a.files)
    /\ \A k \in DOMAIN a.files :
        /\ m.info.files[k].len = a.files[k].len
        /\ IF m.info.file_directory = {} THEN FlattenSeq(m.info.files[k].path) = FlattenSeq(a.files[k].path)
           ELSE m.info.files[k].path = a.files[k].path

(* What the builder is asked for is what is read from the file it writes:  *)
(* every setting but the private flag, and the files with their lengths    *)
(* and paths, in the order of the accessor, under the directory.  No       *)
(* setting is lost, left over from an earlier call or written where        *)
(* another is read, whatever the order of the calls.                       *)
WrittenIsRead ==
    \A v \in built, from \in source :
        ~Failed(v) =>
            LET read == parse_meta_bytes(v.ok)
            IN  ~Failed(read) /\ ReadAsAsked(read.ok, Accessor(from))

(* The getters of the builder agree with the setters at any time.          *)
GettersAgree ==
    <<get_trackers(mbuilder), get_main_tracker(mbuilder), get_comment(mbuilder), get_created_by(mbuilder),
      get_creation_date(mbuilder)>>
    = <<asked.trackers, asked.announce, asked.comment, asked.created_by, asked.date>>

(* Two files agree in all that to_bytes writes.                            *)
SameFile(m, n) ==
    /\ <<n.announce, n.comment, n.created_by, n.creation_date>> = <<m.announce, m.comment, m.created_by, m.creation_date>>
    /\ <<n.info.pieces, n.info.piece_len, n.info.file_directory>>
        = <<m.info.pieces, m.info.piece_len, m.info.file_directory>>
    /\ [k \in DOMAIN n.info.files |-> <<n.info.files[k].len, FlattenSeq(n.info.files[k].path)>>]
        = [k \in DOMAIN m.info.files |-> <<m.info.files[k].len, FlattenSeq(m.info.files[k].path)>>]

RewrittenAs(m, again) ==
    /\ ~Failed(again)
    /\ LET n == parse_meta_bytes(again.ok)
       IN  ~Failed(n) /\ SameFile(m, n.ok) /\ to_bytes(n.ok) = again

ReadIsRewritten(read) == Failed(read) \/ read.ok.info.piece_len = 0 \/ RewrittenAs(read.ok, to_bytes(read.ok))

(* A file that was read, by whichever program it was written, can be       *)
(* written again with to_bytes: what is read from the second file has the  *)
(* same pieces, lengths, paths, directory and settings that to_bytes       *)
(* knows, and writing it once more changes nothing.  A piece length of     *)
(* zero, which from_bytes accepts, is the only exception.                  *)
RewrittenIsSame == \A v \in built : Failed(v) \/ ReadIsRewritten(parse_meta_bytes(v.ok))

(* The piece length of an optimization is the least power of two that      *)
(* keeps the hashes within the size it names, up to the rounding of the    *)
(* quotient, not below its minimum and not above the overall maximum.      *)
PieceLengthIsLeast ==
    "opt" \in DOMAIN mbuilder.piece_length =>
        \A total \in Totals :
            LET length == determine_piece_length(total, mbuilder.piece_length)
                least == MinPieceLength[mbuilder.piece_length.opt]
                pieces == MaxPiecesSize[mbuilder.piece_length.opt] \div SHA_HASH_LEN
                Fits(n) == total \div pieces < n \/ total - pieces * n < pieces \div 2
            IN  /\ length \in PowersOfTwo
                /\ least <= length /\ length <= ALL_OPT_MAX_PIECE_LENGTH
                /\ Fits(length) \/ length = ALL_OPT_MAX_PIECE_LENGTH
                /\ length = least \/ ~Fits(length \div 2)

(* What is set on a builder is what its getters return and what is read    *)
(* from the file it writes.                                                *)
SettingsAreKept == GettersAgree /\ WrittenIsRead
=============================================================================

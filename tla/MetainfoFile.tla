---------------------------- MODULE MetainfoFile ----------------------------
(***************************************************************************)
(* Metainfo files: what Metainfo::from_bytes makes of a bencoded value.    *)
(* Text is a sequence of bytes; a path is the sequence of its components;  *)
(* an optional value is a set with at most one element.  The info hash of  *)
(* a dictionary is the dictionary itself, as the hash of its bytes tells   *)
(* dictionaries apart.  A failed unwrap is the error Panic.                *)
(***************************************************************************)
EXTENDS BencodeAccess

SHA_HASH_LEN == 20
SLASH == 47

(* A path as std::path splits it.                                          *)
Components(text) ==
    LET parts == FoldLeft(LAMBDA acc, c : IF c = SLASH THEN Append(acc, <<>>) ELSE [acc EXCEPT ![Len(acc)] = Append(@, c)],
                          <<<<>>>>, text)
    IN  (IF text # <<>> /\ text[1] = SLASH THEN <<<<SLASH>>>> ELSE <<>>) \o SelectSeq(parts, LAMBDA p : p # <<>>)

(* PathBuf::push: an absolute path replaces what was there.                *)
PathPush(path, text) ==
    IF text # <<>> /\ text[1] = SLASH THEN Components(text) ELSE path \o Components(text)

Optional(r) == IF Failed(r) THEN {} ELSE {r.ok}

(* The unwrap of a conversion to an unsigned integer.                      *)
Unsigned(r) == IF ~Failed(r) /\ r.ok < 0 THEN Err("Panic") ELSE r

-----------------------------------------------------------------------------
(* Parsing                                                                 *)

parse_announce_list(root) == Optional(lookup_and_convert_list(root, "announce-list"))

(* Elements that are not lists, or not text, are skipped.                  *)
convert_announce_list(list) ==
    LET groups == SelectSeq(list, LAMBDA g : ~Failed(convert_list(g)))
        Urls(group) == SelectSeq(group, LAMBDA u : ~Failed(convert_str(u)))
    IN  [k \in DOMAIN groups |-> [j \in DOMAIN Urls(groups[k].list) |-> Urls(groups[k].list)[j].bytes]]

parse_announce_url(root) == Optional(lookup_and_convert_str(root, "announce"))
parse_creation_date(root) == Optional(lookup_and_convert_int(root, "creation date"))
parse_comment(root) == Optional(lookup_and_convert_str(root, "comment"))
parse_created_by(root) == Optional(lookup_and_convert_str(root, "created by"))
parse_encoding(root) == Optional(lookup_and_convert_str(root, "encoding"))
parse_info_bencode(root) == lookup(root, "info")

parse_piece_length(info) == Unsigned(lookup_and_convert_int(info, "piece length"))
parse_pieces(info) == lookup_and_convert_bytes(info, "pieces")
parse_private(info) == {p = 1 : p \in Optional(lookup_and_convert_int(info, "private"))}
parse_name(info) == lookup_and_convert_str(info, "name")
parse_files_list(info) == lookup_and_convert_list(info, "files")
parse_length(dict) == Unsigned(lookup_and_convert_int(dict, "length"))
parse_md5sum(dict) == Optional(lookup_and_convert_bytes(dict, "md5sum"))
parse_path_list(dict) == lookup_and_convert_list(dict, "path")

allocate_pieces(pieces) ==
    IF Len(pieces) % SHA_HASH_LEN = 0
    THEN Ok([k \in 1 .. (Len(pieces) \div SHA_HASH_LEN) |-> SubSeq(pieces, (k - 1) * SHA_HASH_LEN + 1, k * SHA_HASH_LEN)])
    ELSE Err("MissingData")

as_single_file(info) ==
    LET length == parse_length(info)
        name == parse_name(info)
    IN  Checked(<<length, name>>, Ok([len |-> length.ok, path |-> Components(name.ok), md5sum |-> parse_md5sum(info)]))

(* The path of a list of names, all of which have to be text.              *)
PathOf(list) ==
    LET names == [k \in DOMAIN list |-> convert_str(list[k])]
    IN  Checked(names, Ok(FoldLeft(LAMBDA path, name : PathPush(path, name.ok), <<>>, names)))

as_multi_file(file) ==
    Then(convert_dict(file), LAMBDA dict :
        Then(parse_length(dict), LAMBDA length :
            Then(Then(parse_path_list(dict), PathOf), LAMBDA path :
                Ok([len |-> length, path |-> path, md5sum |-> parse_md5sum(dict)]))))

is_multi_file_torrent(info) == Failed(parse_length(info))

(* Every file of a list, unless one of them fails.                         *)
AllFiles(files) == Checked(files, Ok([k \in DOMAIN files |-> files[k].ok]))

(* The files of a torrent and its directory, if it has one.                *)
FilesOf(info) ==
    IF parse_length(info) = Err("Panic") THEN Err("Panic")
    ELSE IF is_multi_file_torrent(info)
    THEN Then(parse_name(info), LAMBDA name :
            Then(parse_files_list(info), LAMBDA list :
                Then(AllFiles([k \in DOMAIN list |-> as_multi_file(list[k])]), LAMBDA files :
                    Ok([files |-> files, directory |-> {name}]))))
    ELSE Then(as_single_file(info), LAMBDA single : Ok([files |-> <<single>>, directory |-> {}]))

parse_info_dictionary(value) ==
    Then(convert_dict(value), LAMBDA info :
        Then(parse_piece_length(info), LAMBDA piece_len :
            Then(Then(parse_pieces(info), allocate_pieces), LAMBDA buffers :
                Then(FilesOf(info), LAMBDA found :
                    Ok([info_hash |-> value, files |-> found.files, pieces |-> buffers, piece_len |-> piece_len,
                        is_private |-> parse_private(info), file_directory |-> found.directory])))))

parse_meta_bytes(value) ==
    Then(convert_dict(value), LAMBDA root :
        Then(Then(parse_info_bencode(root), parse_info_dictionary), LAMBDA info :
            Ok([comment |-> parse_comment(root), announce |-> parse_announce_url(root),
                announce_list |-> {convert_announce_list(l) : l \in parse_announce_list(root)},
                encoding |-> parse_encoding(root), created_by |-> parse_created_by(root),
                creation_date |-> parse_creation_date(root), info |-> info])))

=============================================================================

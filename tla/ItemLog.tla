------------------------------- MODULE ItemLog -------------------------------
(***************************************************************************)
(* The record codec of the kalasa store: src/key-value-learn-project/      *)
(* kalasa/encoding.go and option.go.  An Item is written to the data file  *)
(* as | CRC | TS | KS | VS | KEY | VALUE |, its place in the file is kept   *)
(* in the index as a record (FID, Size, Offset, ...), and the index is     *)
(* written to and read from an index file as records of seven fields under *)
(* a CRC.  The encoder and its secret are package variables which          *)
(* Validation and SetEncryptor set.                                        *)
(*                                                                         *)
(* A file is a sequence of cells: one cell for each field of a header and  *)
(* one for each byte of a key or a value, so that a size or an offset      *)
(* counts cells.  A partial write leaves a prefix of the cells.  The store *)
(* that calls the codec (Put, the opening of files), the Encryptor and the *)
(* files are not in src/; they are modelled by their contracts.            *)
(***************************************************************************)
EXTENDS Integers, Sequences, SequencesExt, TLC

CONSTANTS
    Keys,           \* the keys: sequences of byte cells
    Values,         \* the values: sequences of byte cells
    Options,        \* the Option records handed to Validation
    Hashers,        \* the hash functions handed to SetHashFunc
    Encryptors,     \* the implementations handed to SetEncryptor
    Secrets,        \* the secrets handed to SetEncryptor
    TTLs,           \* the lifetimes a Put asks for
    Rooms,          \* how many cells a file that fills up may still take
    MaxTime,        \* the clock stops here
    MaxData,        \* no Put once the data file has this many cells
    MaxIndex,       \* no WriteIndex once the index file has this many cells
    Nil,
    Junk

VARIABLES
    encoder,            \* [enable, Encryptor]
    Secret,
    Root,               \* the directory of the store, as Validation left it
    defaultMaxFileSize,
    HashedFunc,
    index,              \* idx -> record
    fileList,           \* the data files that are open
    writeOffset,        \* where the store believes the data file ends
    data,               \* the data file, FID 1
    indexFile,          \* the index file
    now,                \* time.Now().Unix()
    written,            \* history: offset -> what a complete Write put there
    torn                \* history: where the first partial write began, or Nil

option == <<Root, defaultMaxFileSize, HashedFunc>>
memory == <<encoder, Secret, option, index, fileList, writeOffset>>
disk   == <<data, indexFile>>
hist   == <<written, torn>>
vars   == <<memory, disk, now, hist>>

-----------------------------------------------------------------------------
(* Cells, checksums and the Encryptor *)

\* A field that holds a number.
U(n) == [u |-> n]

\* The number that some bytes spell: the value of a number field, and a
\* number the model has no name for where something else was written.
Uint(cell) == IF "u" \in DOMAIN cell THEN cell.u ELSE Junk

\* The field that holds idx, the hash of a key, and the key whose hash some
\* bytes are: none, where something else was written.
Idx(key) == [idx |-> key]
Hashed(cell) == IF "idx" \in DOMAIN cell THEN cell.idx ELSE Junk

\* crc32.ChecksumIEEE, taken to tell any two sequences apart.
ChecksumIEEE(cells) == [crc |-> cells]

\* PutUint32(buf[:4], crc32.ChecksumIEEE(buf[4:])).
checksummed(body) == <<ChecksumIEEE(body)>> \o body

\* | CRC 4 | TS 8 | KS 4 | VS 4 |
itemPadding == 4

\* | CRC32 4 | IDX 8 | FID 8 | TS 4 | ET 4 | SZ 4 | OF 4 |
indexSize == 7

\* The Encryptor's contract: a secret of 16 bytes, a ciphertext longer than
\* the plaintext, and Decode the inverse of Encode under the same secret.
SecretSize == 16

Encode(sd) ==
    IF Len(sd.Secret) # SecretSize THEN Nil
    ELSE <<[by |-> encoder.Encryptor, secret |-> sd.Secret, plain |-> sd.Data]>>
             \o [i \in 1 .. Len(sd.Data) |-> [pad |-> 0]]

Decode(sd) ==
    IF /\ sd.Data # <<>>
       /\ "plain" \in DOMAIN sd.Data[1]
       /\ sd.Data[1].by = encoder.Encryptor
       /\ sd.Data[1].secret = sd.Secret
    THEN sd.Data[1].plain
    ELSE Nil

AES == [enable |-> TRUE, Encryptor |-> "AES"]

DefaultEncoder == [enable |-> FALSE, Encryptor |-> Nil]

encrypts == encoder.enable /\ encoder.Encryptor # Nil

-----------------------------------------------------------------------------
(* encoding.go: the data file *)

binaryEncode(item) ==
    checksummed(<<U(item.TimeStamp), U(Len(item.Key)), U(Len(item.Value))>>
                    \o item.Key \o item.Value)

\* Encoder.Write up to bufToFile: the buffer that goes to the file, or Nil
\* when the encryption failed.
Write(item) ==
    IF encrypts
    THEN LET sd == Encode([Secret |-> Secret, Data |-> item.Value])
         IN  IF sd = Nil THEN Nil ELSE binaryEncode([item EXCEPT !.Value = sd])
    ELSE binaryEncode(item)

\* What file.Write takes of a buffer when it has room for `room` cells.
taken(buf, room) == SubSeq(buf, 1, Min({room, Len(buf)}))

\* bufToFile: the file takes the buffer, or a part of it with an error, and
\* the caller is told the count, or 0 with the error.
bufToFile(buf, room) ==
    /\ data' = data \o taken(buf, room)
    /\ torn' = IF room < Len(buf) /\ torn = Nil THEN Len(data) ELSE torn

\* The fields of an item whose checksum holds.
decoded(cells) ==
    LET ks == Uint(cells[3])
        vs == Uint(cells[4])
    IN  [TimeStamp |-> Uint(cells[2]), KeySize |-> ks, ValueSize |-> vs,
         CRC32     |-> cells[1],
         Key       |-> SubSeq(cells, itemPadding + 1, itemPadding + ks),
         Value     |-> SubSeq(cells, itemPadding + ks + 1, itemPadding + ks + vs)]

binaryDecode(cells) ==
    IF cells[1] # ChecksumIEEE(Tail(cells)) THEN Nil
    ELSE decoded(cells)

\* Where binaryDecode panics: data[:4] of an empty window, and the slices of
\* the header, the key and the value when the checksum holds on a window
\* that is shorter than they say.
panics(cells) ==
    \/ cells = <<>>
    \/ /\ cells[1] = ChecksumIEEE(Tail(cells))
       /\ \/ Len(cells) < itemPadding
          \/ Len(cells) < itemPadding + Uint(cells[3]) + Uint(cells[4])

\* parseLog: the window of the record in its file, decoded.  ReadAt fails
\* on a window that ends behind the file, and reads nothing into an empty
\* one.
parseLog(rec) ==
    LET window == SubSeq(data, rec.Offset + 1, rec.Offset + rec.Size) IN
    IF rec.FID \notin fileList
    THEN [item |-> Nil, err |-> "no readable data file found"]
    ELSE IF rec.Size > 0 /\ rec.Offset + rec.Size > Len(data)
    THEN [item |-> Nil, err |-> "EOF"]
    ELSE IF panics(window)
    THEN [item |-> Nil, err |-> "panic"]
    ELSE [item |-> binaryDecode(window), err |-> Nil]

\* A plausible slip: the value is handed out as it was read.
ReadSealed(rec) == parseLog(rec)

\* Encoder.Read: what it returns, an item (which may be nil) and an error.
Read(rec) ==
    LET p == parseLog(rec) IN
    IF p.err = Nil /\ p.item # Nil /\ encrypts
    THEN LET sd == Decode([Secret |-> Secret, Data |-> p.item.Value])
         IN  IF sd = Nil
             THEN [item |-> Nil, err |-> "a data decryption error occurred"]
             ELSE [item |-> [p.item EXCEPT !.Value = sd], err |-> Nil]
    ELSE p

\* The store's Put: Write to the active file and, when it succeeded, the
\* record of the item in the index, at the offset the store counts.
Put(k, v, ttl, room) ==
    LET buf == Write([Key |-> k, Value |-> v, TimeStamp |-> now]) IN
    /\ 1 \in fileList
    /\ Len(data) < MaxData
    /\ \/ /\ buf = Nil
          /\ UNCHANGED <<index, writeOffset, disk, hist>>
       \/ /\ buf # Nil
          /\ room >= Len(buf)
          /\ bufToFile(buf, room)
          /\ index' = (k :> [FID |-> 1, Size |-> Len(buf), Offset |-> writeOffset,
                             Timestamp |-> now, ExpireTime |-> now + ttl]) @@ index
          /\ writeOffset' = writeOffset + Len(buf)
          /\ written' = (Len(data) :> [key |-> k, value |-> v,
                                       by |-> <<encoder, Secret>>]) @@ written
          /\ UNCHANGED indexFile
       \/ /\ buf # Nil
          /\ room < Len(buf)
          /\ bufToFile(buf, room)
          /\ UNCHANGED <<index, writeOffset, indexFile, written>>
    /\ UNCHANGED <<encoder, Secret, option, fileList, now>>

-----------------------------------------------------------------------------
(* encoding.go: the index file *)

\* A plausible slip: the last two fields in the other order.
indexBufSwapped(idx, rec) ==
    checksummed(<<Idx(idx), U(rec.FID), U(rec.Timestamp), U(rec.ExpireTime),
                  U(rec.Offset), U(rec.Size)>>)

\* The buffer of WriteIndex.
indexBuf(idx, rec) ==
    checksummed(<<Idx(idx), U(rec.FID), U(rec.Timestamp), U(rec.ExpireTime),
                  U(rec.Size), U(rec.Offset)>>)

\* Encoder.WriteIndex of the record of k; the file may take a part of it.
WriteIndex(k, room) ==
    /\ k \in DOMAIN index
    /\ Len(indexFile) < MaxIndex
    /\ indexFile' = indexFile \o taken(indexBuf(k, index[k]), room)
    /\ UNCHANGED <<memory, data, now, hist>>

\* The record that a buffer of the index file spells.
indexItem(buf) ==
    [idx |-> Hashed(buf[2]),
     record |-> [FID |-> Uint(buf[3]), Timestamp |-> Uint(buf[4]),
                 ExpireTime |-> Uint(buf[5]), Size |-> Uint(buf[6]),
                 Offset |-> Uint(buf[7])]]

restored(buf) ==
    LET item == indexItem(buf) IN
    IF now <= item.record.ExpireTime THEN (item.idx :> item.record) @@ index ELSE index

\* A plausible slip: the buffer is taken without its checksum.
ReadIndexUnchecked(i) ==
    /\ i * indexSize <= Len(indexFile)
    /\ index' = restored(SubSeq(indexFile, (i - 1) * indexSize + 1, i * indexSize))
    /\ UNCHANGED <<encoder, Secret, option, fileList, writeOffset,
                   disk, now, hist>>

\* Encoder.ReadIndex of the i-th buffer of the index file: a buffer that
\* fails its checksum is an error, a record that has expired is dropped.
ReadIndex(i) ==
    LET buf == SubSeq(indexFile, (i - 1) * indexSize + 1, i * indexSize) IN
    /\ i * indexSize <= Len(indexFile)
    /\ index' = IF buf[1] # ChecksumIEEE(Tail(buf)) THEN index ELSE restored(buf)
    /\ UNCHANGED <<encoder, Secret, option, fileList, writeOffset,
                   disk, now, hist>>

-----------------------------------------------------------------------------
(* option.go *)

\* The process ends, by a panic or from outside, and a new one starts:
\* the package variables have their initial values and no file is open.
\* What the characters of a path are told apart by: "/", " ", and any other.
pathBackslashes(path) ==
    IF path # <<>> /\ Last(path) = "/" THEN path ELSE Append(path, "/")

TrimSpace(str) ==
    LET inked == {i \in DOMAIN str : str[i] # " "} IN
    IF inked = {} THEN <<>> ELSE SubSeq(str, Min(inked), Max(inked))

\* fmt.Sprintf("%sdata/", Root) and fmt.Sprintf("%sindex/", Root).
dataDirectory == IF Root = <<>> THEN <<>> ELSE Append(Root, "data/")
indexDirectory == IF Root = <<>> THEN <<>> ELSE Append(Root, "index/")

DefaultOption ==
    [Directory |-> <<"d">>, DataFileMaxSize |-> 10240, Enable |-> FALSE, Secret |-> <<>>]

Dies ==
    /\ encoder' = DefaultEncoder
    /\ Secret' = <<>>
    /\ Root' = <<>>
    /\ defaultMaxFileSize' = 0
    /\ HashedFunc' = Nil
    /\ index' = <<>>
    /\ fileList' = {}
    /\ writeOffset' = 0

Validation(o) ==
    /\ \/ o.Directory = <<>> /\ Dies
       \/ /\ o.Directory # <<>>
          /\ \/ /\ o.Enable
                /\ Len(o.Secret) < 16 /\ Len(o.Secret) > 16
                /\ Dies
             \/ /\ ~(o.Enable /\ Len(o.Secret) < 16 /\ Len(o.Secret) > 16)
                /\ Root' = TrimSpace(pathBackslashes(o.Directory))
                /\ defaultMaxFileSize' =
                      IF o.DataFileMaxSize # 0 THEN o.DataFileMaxSize ELSE defaultMaxFileSize
                /\ \/ o.Enable /\ Secret' = o.Secret /\ encoder' = AES
                   \/ ~o.Enable /\ UNCHANGED <<encoder, Secret>>
                /\ UNCHANGED <<HashedFunc, index, fileList, writeOffset>>
    /\ UNCHANGED <<disk, now, hist>>

SetEncryptor(encryptor, secret) ==
    /\ \/ Len(secret) = 0 /\ Dies
       \/ /\ Len(secret) # 0
          /\ encoder' = [enable |-> TRUE, Encryptor |-> encryptor]
          /\ Secret' = secret
          /\ UNCHANGED <<option, index, fileList, writeOffset>>
    /\ UNCHANGED <<disk, now, hist>>

SetHashFunc(hash) ==
    /\ HashedFunc' = hash
    /\ UNCHANGED <<encoder, Secret, Root, defaultMaxFileSize, index, fileList,
                   writeOffset, disk, now, hist>>

SetIndexSize(size) ==
    /\ index' = IF size = 0 THEN index ELSE <<>>
    /\ UNCHANGED <<encoder, Secret, option, fileList, writeOffset,
                   disk, now, hist>>

-----------------------------------------------------------------------------
(* The store and the clock *)

\* The store opens the data file: it can be read, and written at its end.
OpenFile ==
    /\ fileList = {}
    /\ fileList' = {1}
    /\ writeOffset' = Len(data)
    /\ UNCHANGED <<encoder, Secret, option, index, disk, now, hist>>

Restart == Dies /\ UNCHANGED <<disk, now, hist>>

Tick ==
    /\ now < MaxTime
    /\ now' = now + 1
    /\ UNCHANGED <<memory, disk, hist>>

Init ==
    /\ encoder = DefaultEncoder
    /\ Secret = <<>>
    /\ Root = <<>>
    /\ defaultMaxFileSize = 0
    /\ HashedFunc = Nil
    /\ index = <<>>
    /\ fileList = {}
    /\ writeOffset = 0
    /\ data = <<>>
    /\ indexFile = <<>>
    /\ now = 0
    /\ written = <<>>
    /\ torn = Nil

Next ==
    \/ \E o \in Options : Validation(o)
    \/ \E e \in Encryptors, s \in Secrets : SetEncryptor(e, s)
    \/ \E size \in {0, 1} : SetIndexSize(size)
    \/ \E hash \in Hashers : SetHashFunc(hash)
    \/ OpenFile
    \/ \E k \in Keys, v \in Values, ttl \in TTLs, room \in Rooms : Put(k, v, ttl, room)
    \/ \E k \in Keys, room \in Rooms : WriteIndex(k, room)
    \/ \E i \in 1 .. MaxIndex \div indexSize + 1 : ReadIndex(i)
    \/ Restart
    \/ Tick

Spec == Init /\ [][Next]_vars

-----------------------------------------------------------------------------
(* Properties *)

Records == [FID : {1}, Size : Nat, Offset : Nat, Timestamp : 0 .. MaxTime, ExpireTime : Nat]

\* Type invariant.  The index holds records of keys: a buffer of the index
\* file that is not what WriteIndex wrote never gets into it.
TypeOK ==
    /\ encoder \in [enable : BOOLEAN, Encryptor : Encryptors \cup {"AES", Nil}]
    /\ Secret \in Secrets \cup {o.Secret : o \in Options} \cup {<<>>}
    /\ Root \in {<<>>} \cup {TrimSpace(pathBackslashes(o.Directory)) : o \in Options}
    /\ defaultMaxFileSize \in {0} \cup {o.DataFileMaxSize : o \in Options}
    /\ HashedFunc \in Hashers \cup {Nil}
    /\ DOMAIN index \subseteq Keys
    /\ \A k \in DOMAIN index : index[k] \in Records
    /\ fileList \subseteq {1}
    /\ writeOffset \in 0 .. Len(data)
    /\ now \in 0 .. MaxTime
    /\ torn \in Nat \cup {Nil}

\* What Read returns without an error is what was written: the record's
\* window is a whole item that a Write put at that offset, with its key,
\* and, under the encoder and the secret of that Write, with its value.  A
\* window that a partial write has shifted fails its checksum.
ReadIsWritten ==
    \A k \in DOMAIN index :
        LET r == Read(index[k]) IN
        r.err = Nil /\ r.item # Nil =>
            /\ index[k].Offset \in DOMAIN written
            /\ LET w == written[index[k].Offset] IN
               /\ r.item.Key = w.key
               /\ w.by = <<encoder, Secret>> => r.item.Value = w.value

\* Every record of the index points at a whole item of its key, whether Put
\* made the record or ReadIndex restored it from the index file -- unless a
\* partial write came before it, after which the store's offsets are off.
IndexPointsAtItem ==
    \A k \in DOMAIN index :
        LET p == parseLog(index[k]) IN
        1 \in fileList /\ (torn = Nil \/ index[k].Offset < torn) =>
            p.err = Nil /\ p.item # Nil /\ p.item.Key = k

=============================================================================

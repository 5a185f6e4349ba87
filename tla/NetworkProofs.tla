--------------------------- MODULE NetworkProofs ---------------------------
(***************************************************************************)
(* What holds of the parts of NetParts for every set of peers, things,     *)
(* hosts and alerts and every limit.  A behaviour is of one part, and part *)
(* never changes, so an invariant of a part is one of a behaviour that     *)
(* says it of its own part.  What holds of PartsSpec holds of MCNetwork,   *)
(* whose other parts leave these variables alone.                          *)
(***************************************************************************)
EXTENDS NetParts, FiniteSetTheorems, SequenceTheorems, IntervalFacts

-----------------------------------------------------------------------------
(* peers.dat *)

Magics == {Magic, OtherMagic}
Versions == 0..MaxVersion
Cells == {File!Zero} \cup {<<"magic", m>> : m \in Magics} \cup {<<"addr", v>> : v \in Versions}
            \cup {<<"csum", File!Data(m, v)>> : m \in Magics, v \in Versions}

\* What a file can hold: parts of one image, or zeros in their place.
PieceOf(f, m, v) == \A i \in 1..Len(f) : f[i] = File!Image(m, v)[i] \/ f[i] = File!Zero
Piece(f) ==
    /\ f \in Seq(Cells) /\ Len(f) \in 0..4
    /\ \E m \in Magics, v \in Versions : PieceOf(f, m, v)
Whole(f) == f = << >> \/ \E m \in Magics, v \in Versions : f = File!Image(m, v)

\* The writer's file, as long as no flush of it has failed, is the beginning of its
\* image, and all of it once it is to be committed.
Writing == [at : {"write", "commit", "rename"}, tmp : TmpNames,
            image : {File!Image(Magic, v) : v \in Versions}]
WriterRight ==
    /\ writer.at = "write" =>
          /\ writer.tmp \notin torn /\ Len(disk[writer.tmp]) < 4
          /\ \A i \in 1..Len(disk[writer.tmp]) : disk[writer.tmp][i] = writer.image[i]
    /\ writer.at = "commit" => writer.tmp \notin torn /\ disk[writer.tmp] = writer.image
    /\ writer.at = "rename" /\ writer.tmp \notin torn =>
          disk[writer.tmp] = writer.image /\ durable[writer.tmp] = 4

FilesRight ==
    /\ disk \in [File!Files -> Seq(Cells)] /\ durable \in [File!Files -> 0..4]
    /\ \A f \in File!Files : Piece(disk[f]) /\ durable[f] <= Len(disk[f])

FileInv ==
    /\ addrman \in Versions
    /\ FilesRight
    /\ "peers.dat" \notin torn =>
          Whole(disk["peers.dat"]) /\ durable["peers.dat"] = Len(disk["peers.dat"])
    /\ Whole(before)
    /\ \/ writer = [at |-> "idle"]
       \/ writer \in Writing /\ WriterRight
    /\ loaded # << >> => loaded[1] = loaded[2]

-----------------------------------------------------------------------------
\* Three things and a fourth.
LEMMA FourThings ==
    ASSUME NEW S, NEW a \in S, NEW b \in S, NEW c \in S, NEW q, q = Append(<<a, b, b>>, c)
    PROVE  q \in Seq(S) /\ Len(q) = 4 /\ q[1] = a /\ q[2] = b /\ q[3] = b /\ q[4] = c
<1>1. PICK d : d = <<a, b, b>>
  OBVIOUS
<1>2. d \in Seq(S) /\ Len(d) = 3 /\ d[1] = a /\ d[2] = b /\ d[3] = b
  BY <1>1
<1>3. q = Append(d, c)
  BY <1>1
<1>4. /\ q \in Seq(S) /\ Len(q) = Len(d) + 1 /\ q[Len(d) + 1] = c
      /\ \A i \in 1..Len(d) : q[i] = d[i]
  <2>1. d \in Seq(S)
    BY <1>2
  <2> HIDE <1>1, <1>2
  <2> QED
    BY <1>3, <2>1
<1> QED
  BY <1>2, <1>4

\* What Image is made of.
LEMMA ImageParts ==
    ASSUME NEW m \in Magics, NEW v \in Versions
    PROVE  /\ File!Image(m, v) \in Seq(Cells) /\ Len(File!Image(m, v)) = 4
           /\ File!Image(m, v)[1] = <<"magic", m>>
           /\ File!Image(m, v)[2] = <<"addr", v>> /\ File!Image(m, v)[3] = <<"addr", v>>
           /\ File!Image(m, v)[4] = <<"csum", File!Data(m, v)>>
<1>1. /\ <<"magic", m>> \in Cells /\ <<"addr", v>> \in Cells
      /\ <<"csum", File!Data(m, v)>> \in Cells
  BY DEF Cells
<1>2. File!Image(m, v) =
        Append(<< <<"magic", m>>, <<"addr", v>>, <<"addr", v>> >>, <<"csum", File!Data(m, v)>>)
  BY Zenon DEF File!Image, File!Data
<1> QED
  BY <1>1, <1>2, FourThings

\* A whole file is a piece of itself.
LEMMA WholeIsPiece == \A f : Whole(f) => Piece(f)
<1> SUFFICES ASSUME NEW f, Whole(f) PROVE Piece(f)
  OBVIOUS
<1>1. CASE f = << >>
  <2>1. Magic \in Magics /\ 0 \in Versions
    BY NetworkAssumption DEF Magics, Versions
  <2> QED
    BY <1>1, <2>1 DEF Piece, PieceOf
<1>2. CASE \E m \in Magics, v \in Versions : f = File!Image(m, v)
  <2>1. PICK m \in Magics, v \in Versions : f = File!Image(m, v)
    BY <1>2
  <2>2. f \in Seq(Cells) /\ Len(f) = 4
    BY <2>1, ImageParts
  <2>3. PieceOf(f, m, v)
    BY <2>1 DEF PieceOf
  <2> QED
    BY <2>2, <2>3 DEF Piece
<1> QED
  BY <1>1, <1>2 DEF Whole

\* What is left of a piece is one, with zeros or without.
LEMMA CutPiece ==
    ASSUME NEW f, Piece(f), NEW n \in Nat, NEW k \in 0..4, n <= Len(f)
    PROVE  Piece(File!Cut(f, n, k)) /\ Len(File!Cut(f, n, k)) = k
<1> DEFINE c == File!Cut(f, n, k)
<1>1. PICK m \in Magics, v \in Versions : PieceOf(f, m, v)
  BY DEF Piece
<1>2. c = [i \in 1..k |-> IF i <= n THEN f[i] ELSE File!Zero]
  BY DEF File!Cut
<1>3. f \in Seq(Cells) /\ File!Zero \in Cells
  BY DEF Piece, Cells
<1> HIDE DEF c
<1>4. \A i \in 1..k : c[i] \in Cells
  BY <1>2, <1>3
<1>5. c \in Seq(Cells) /\ Len(c) = k
  BY <1>2, <1>4
<1>6. \A i \in 1..k : (c[i] = f[i] /\ i \in 1..Len(f)) \/ c[i] = File!Zero
  BY <1>2
<1>7. PieceOf(c, m, v)
  BY <1>1, <1>5, <1>6 DEF PieceOf
<1> QED
  BY <1>5, <1>7 DEF c, Piece

\* CAddrDB::Read takes nothing but a whole image.
LEMMA ReadsWhole ==
    ASSUME NEW f, Piece(f), File!Read(f) # << >>
    PROVE  \E v \in Versions : File!Read(f) = <<v, v>>
<1>1. PICK m \in Magics, v \in Versions : PieceOf(f, m, v)
  BY DEF Piece
<1>2. /\ Len(f) = 4 /\ f[4] = <<"csum", SubSeq(f, 1, 3)>>
      /\ File!Read(f) = << f[2][2], f[3][2] >>
  BY DEF File!Read, File!Parts, File!Nothing
<1>3. f[4] = <<"csum", File!Data(m, v)>>
  <2>1. f[4] = File!Image(m, v)[4] \/ f[4] = File!Zero
    BY <1>1, <1>2 DEF PieceOf
  <2>2. <<"csum", SubSeq(f, 1, 3)>> # File!Zero
    BY DEF File!Zero
  <2> QED
    BY <1>2, <2>1, <2>2, ImageParts
<1>4. SubSeq(f, 1, 3) = File!Data(m, v)
  BY <1>2, <1>3
<1>5. f[2] = <<"addr", v>> /\ f[3] = <<"addr", v>>
  <2>1. f \in Seq(Cells)
    BY DEF Piece
  <2>2. SubSeq(f, 1, 3)[2] = f[2] /\ SubSeq(f, 1, 3)[3] = f[3]
    BY <1>2, <2>1
  <2>3. File!Data(m, v)[2] = <<"addr", v>> /\ File!Data(m, v)[3] = <<"addr", v>>
    BY DEF File!Data
  <2> QED
    BY <1>4, <2>2, <2>3
<1> QED
  BY <1>2, <1>5

\* A file of which everything is durable is left as it is by a crash.
LEMMA CutNothing ==
    ASSUME NEW f, Piece(f)
    PROVE  File!Cut(f, Len(f), Len(f)) = f
<1>1. f \in Seq(Cells)
  BY DEF Piece
<1> QED
  BY <1>1 DEF File!Cut

\* The first snapshot and the files are those of the disk.
LEMMA FileStart == File!Init => FileInv
<1> SUFFICES ASSUME File!Init PROVE FileInv
  OBVIOUS
<1>1. Magic \in Magics /\ OtherMagic \in Magics /\ 0 \in Versions /\ 1 \in Versions
  BY NetworkAssumption DEF Magics, Versions
<1>2. PICK first \in {File!NoFile, File!Image(Magic, 1), File!Image(OtherMagic, 1)} :
        /\ disk = [f \in File!Files |-> IF f = File!PeersDat THEN first ELSE File!NoFile]
        /\ before = first
  BY DEF File!Init
<1>3. Whole(first) /\ Whole(<< >>)
  BY <1>1, <1>2 DEF Whole, File!NoFile
<1>4. \A f \in File!Files : Whole(disk[f]) /\ Piece(disk[f])
  BY <1>2, <1>3, WholeIsPiece DEF File!NoFile
<1>5. /\ disk \in [File!Files -> Seq(Cells)]
      /\ \A f \in File!Files : Len(disk[f]) \in 0..4
  <2>1. \A f \in File!Files : disk[f] \in Seq(Cells) /\ Len(disk[f]) \in 0..4
    BY <1>4 DEF Piece
  <2>2. disk = [f \in File!Files |-> disk[f]]
    BY <1>2
  <2> QED
    BY <2>1, <2>2
<1>6. durable = [f \in File!Files |-> Len(disk[f])] /\ "peers.dat" \in File!Files
  BY DEF File!Init, File!Files, File!PeersDat
<1>7. FilesRight
  BY <1>4, <1>5, <1>6 DEF FilesRight
<1>8. addrman \in Versions /\ Whole(before) /\ writer = [at |-> "idle"] /\ loaded = << >>
  BY <1>1, <1>2, <1>3 DEF File!Init, File!Nothing
<1>9. Whole(disk["peers.dat"]) /\ durable["peers.dat"] = Len(disk["peers.dat"])
  BY <1>4, <1>6
<1> QED
  BY <1>7, <1>8, <1>9 DEF FileInv

\* The first n parts of an image.
Begins(q, n, v) ==
    /\ q \in Seq(Cells) /\ Len(q) = n
    /\ \A i \in 1..n : q[i] = File!Image(Magic, v)[i]

\* A piece becomes longer by what the image has next.
LEMMA AppendPiece ==
    ASSUME NEW v \in Versions, NEW n \in 0..3, NEW q, Begins(q, n, v),
           NEW g, g = Append(q, File!Image(Magic, v)[n + 1])
    PROVE  Piece(g) /\ Begins(g, n + 1, v)
<1> DEFINE I == File!Image(Magic, v)
<1>1. Magic \in Magics /\ I \in Seq(Cells) /\ Len(I) = 4
  BY ImageParts DEF Magics
<1>2. n + 1 \in 1..4
  OBVIOUS
<1>3. I[n + 1] \in Cells
  BY <1>1, <1>2, ElementOfSeq
<1>4. q \in Seq(Cells) /\ Len(q) = n /\ \A i \in 1..n : q[i] = I[i]
  BY DEF Begins
<1>5. /\ g \in Seq(Cells) /\ Len(g) = n + 1
      /\ \A i \in 1..n : g[i] = q[i]
      /\ g[n + 1] = I[n + 1]
  BY <1>3, <1>4 DEF I
<1>6. \A i \in 1..(n + 1) : g[i] = I[i]
  <2> TAKE i \in 1..(n + 1)
  <2>1. i \in 1..n \/ i = n + 1
    OBVIOUS
  <2> QED
    BY <1>4, <1>5, <2>1
<1>7. Piece(g)
  BY <1>1, <1>2, <1>5, <1>6 DEF Piece, PieceOf, I
<1> QED
  BY <1>5, <1>6, <1>7 DEF I, Begins

\* Every step of peers.dat's keeps the invariant.
LEMMA FileStep ==
    ASSUME FileInv, File!Next
    PROVE  FileInv'
<1> USE DEF File!PeersDat, File!Parts, File!NoFile
<1>1. "peers.dat" \in File!Files /\ "peers.dat" \notin TmpNames /\ TmpNames \subseteq File!Files
  BY NetworkAssumption DEF File!Files
<1>2. /\ addrman \in Versions /\ FilesRight /\ Whole(before)
      /\ "peers.dat" \notin torn =>
            Whole(disk["peers.dat"]) /\ durable["peers.dat"] = Len(disk["peers.dat"])
      /\ loaded # << >> => loaded[1] = loaded[2]
  BY DEF FileInv
<1>3. writer.at # "idle" => writer \in Writing /\ WriterRight
  BY DEF FileInv
<1>4. ASSUME writer' = [at |-> "idle"] \/ (writer' \in Writing /\ WriterRight'),
             (addrman \in Versions /\ FilesRight /\ Whole(before))',
             ("peers.dat" \notin torn =>
                Whole(disk["peers.dat"]) /\ durable["peers.dat"] = Len(disk["peers.dat"]))',
             (loaded # << >> => loaded[1] = loaded[2])'
      PROVE  FileInv'
  BY <1>4 DEF FileInv
<1>5. CASE File!StartNode
  <2>1. Piece(disk["peers.dat"])
    BY <1>1, <1>2 DEF FilesRight
  <2>2. loaded' = File!Read(disk["peers.dat"]) /\ addrman' = IF loaded' = << >> THEN 0 ELSE loaded'[1]
    BY <1>5 DEF File!StartNode, File!Nothing
  <2>3. loaded' # << >> => \E v \in Versions : loaded' = <<v, v>>
    BY <2>1, <2>2, ReadsWhole
  <2>4. (addrman \in Versions)' /\ (loaded # << >> => loaded[1] = loaded[2])'
    <3>1. 0 \in Versions
      BY NetworkAssumption DEF Versions
    <3>2. CASE loaded' = << >>
      BY <2>2, <3>1, <3>2
    <3>3. CASE loaded' # << >>
      <4>1. PICK v \in Versions : loaded' = <<v, v>>
        BY <2>3, <3>3
      <4> QED
        BY <2>2, <3>3, <4>1
    <3> QED
      BY <3>2, <3>3
  <2>5. UNCHANGED <<disk, durable, before, writer, torn>>
    BY <1>5 DEF File!StartNode
  <2> QED
    BY <1>2, <2>4, <2>5 DEF FileInv, FilesRight, WriterRight
<1>6. CASE File!Learn
  <2>1. addrman' \in Versions
    BY <1>2, <1>6, NetworkAssumption DEF File!Learn, Versions
  <2>2. UNCHANGED <<disk, durable, before, writer, loaded, torn>>
    BY <1>6 DEF File!Learn
  <2> QED
    BY <1>2, <2>1, <2>2 DEF FileInv, FilesRight, WriterRight
<1>7. CASE File!OpenFails \/ File!WriteFails \/ File!RenameFails
  <2>1. UNCHANGED <<addrman, disk, durable, before, loaded, torn>> /\ writer' = [at |-> "idle"]
    BY <1>7 DEF File!OpenFails, File!WriteFails, File!RenameFails, File!Finish
  <2> QED
    BY <1>2, <2>1 DEF FileInv, FilesRight
<1>8. CASE File!StopNode
  <2>1. UNCHANGED <<addrman, disk, durable, before, writer, loaded, torn>>
    BY <1>8 DEF File!StopNode
  <2> QED
    BY <2>1 DEF FileInv, FilesRight, WriterRight
<1>9. CASE File!Dump
  <2>1. PICK tmp \in TmpNames :
          /\ writer' = [at |-> "write", tmp |-> tmp, image |-> File!Image(Magic, addrman)]
          /\ disk' = [disk EXCEPT ![tmp] = << >>]
          /\ durable' = [durable EXCEPT ![tmp] = 0]
          /\ torn' = torn \ {tmp}
    BY <1>9 DEF File!Dump
  <2>2. addrman' = addrman /\ before' = before /\ loaded' = loaded
    BY <1>9 DEF File!Dump
  <2>3. Piece(<< >>)
    BY WholeIsPiece DEF Whole
  <2>4. << >> \in Seq(Cells) /\ Len(<< >>) = 0
    OBVIOUS
  <2>5. tmp # "peers.dat" /\ tmp \in File!Files
    BY <1>1
  <2>6. FilesRight'
    BY <1>1, <1>2, <2>1, <2>3, <2>4, <2>5 DEF FilesRight
  <2>7. writer' \in Writing
    BY <1>2, <2>1 DEF Writing
  <2>8. WriterRight'
    <3>1. disk'[tmp] = << >> /\ tmp \notin torn' /\ writer'.at = "write" /\ writer'.tmp = tmp
      BY <1>2, <2>1, <2>5 DEF FilesRight
    <3>2. \A i \in 1..Len(<< >>) : disk'[tmp][i] = writer'.image[i]
      BY <2>4
    <3> QED
      BY <2>4, <3>1, <3>2 DEF WriterRight
  <2>9. disk'["peers.dat"] = disk["peers.dat"] /\ durable'["peers.dat"] = durable["peers.dat"]
    BY <1>1, <1>2, <2>1, <2>5 DEF FilesRight
  <2> QED
    BY <1>2, <1>4, <2>1, <2>2, <2>5, <2>6, <2>7, <2>8, <2>9
<1>10. CASE File!WritePart
  <2>1. writer.at = "write" /\ writer \in Writing /\ WriterRight
    BY <1>3, <1>10 DEF File!WritePart
  <2>2. PICK tmp \in TmpNames : tmp = writer.tmp
    BY <2>1 DEF Writing
  <2>3. PICK v \in Versions : writer.image = File!Image(Magic, v)
    BY <2>1 DEF Writing
  <2>4. PICK q : q = disk[tmp]
    OBVIOUS
  <2>5. Piece(q) /\ tmp \in File!Files /\ tmp # "peers.dat" /\ tmp \notin torn
    BY <1>1, <1>2, <2>1, <2>2, <2>4 DEF FilesRight, WriterRight
  <2>6. PICK n \in 0..3 : Len(q) = n
    <3>1. PICK n \in 0..4 : Len(q) = n
      BY <2>5 DEF Piece
    <3> QED
      BY <2>1, <2>2, <2>4, <3>1 DEF WriterRight
  <2>7. \A i \in 1..n : q[i] = File!Image(Magic, v)[i]
    BY <2>1, <2>2, <2>3, <2>4, <2>6 DEF WriterRight
  <2>8. PICK g : g = Append(q, File!Image(Magic, v)[n + 1])
    OBVIOUS
  <2>9. /\ Piece(g) /\ Len(g) = n + 1
        /\ \A i \in 1..(n + 1) : g[i] = File!Image(Magic, v)[i]
    <3>1. Begins(q, n, v)
      BY <2>5, <2>6, <2>7 DEF Piece, Begins
    <3>2. Piece(g) /\ Begins(g, n + 1, v)
      BY <2>8, <3>1, AppendPiece
    <3> QED
      BY <3>2 DEF Begins
  <2>10. /\ disk' = [disk EXCEPT ![tmp] = g]
         /\ writer' = [writer EXCEPT !.at = IF n + 1 = 4 THEN "commit" ELSE "write"]
         /\ UNCHANGED <<addrman, durable, before, loaded, torn>>
    BY <1>10, <2>2, <2>3, <2>4, <2>6, <2>8 DEF File!WritePart
  <2>11. FilesRight'
    <3>1. disk' \in [File!Files -> Seq(Cells)]
      BY <1>2, <2>9, <2>10 DEF FilesRight, Piece
    <3>2. \A f \in File!Files : disk'[f] = IF f = tmp THEN g ELSE disk[f]
      BY <1>2, <2>10 DEF FilesRight
    <3>3. durable[tmp] \in 0..4 /\ durable[tmp] <= Len(g)
      <4>1. PICK d \in 0..4 : d = durable[tmp]
        BY <1>2, <2>5 DEF FilesRight
      <4>2. d <= n
        BY <1>2, <2>4, <2>5, <2>6, <4>1 DEF FilesRight
      <4> QED
        BY <2>9, <4>1, <4>2
    <3> QED
      BY <1>2, <2>9, <2>10, <3>1, <3>2, <3>3 DEF FilesRight
  <2>12. writer' \in Writing /\ writer'.tmp = tmp /\ writer'.image = File!Image(Magic, v)
         /\ writer'.at = IF n + 1 = 4 THEN "commit" ELSE "write"
    BY <2>1, <2>2, <2>3, <2>10 DEF Writing
  <2>13. disk'[tmp] = g /\ disk'["peers.dat"] = disk["peers.dat"] /\ tmp \notin torn'
    BY <1>1, <1>2, <2>5, <2>10 DEF FilesRight
  <2>14. n + 1 = 4 => g = File!Image(Magic, v)
    <3>1. Magic \in Magics
      BY DEF Magics
    <3>2. PICK I : I = File!Image(Magic, v)
      OBVIOUS
    <3>3. I \in Seq(Cells) /\ Len(I) = 4
      BY <3>1, <3>2, ImageParts
    <3>4. g \in Seq(Cells)
      BY <2>9 DEF Piece
    <3>5. \A i \in 1..(n + 1) : g[i] = I[i]
      BY <2>9, <3>2
    <3>6. n + 1 = 4 => g = I
      BY <2>9, <3>3, <3>4, <3>5, SeqEqual
    <3> QED
      BY <3>2, <3>6
  <2>15. WriterRight'
    <3>1. CASE n + 1 = 4
      BY <2>12, <2>13, <2>14, <3>1 DEF WriterRight
    <3>2. CASE n + 1 # 4
      <4>1. n + 1 \in 0..3
        BY <3>2
      <4> QED
        BY <2>9, <2>12, <2>13, <3>2, <4>1 DEF WriterRight
    <3> QED
      BY <3>1, <3>2
  <2>16. UNCHANGED <<addrman, durable, before, loaded, torn>>
    BY <2>10
  <2> QED
    BY <1>2, <1>4, <2>11, <2>12, <2>13, <2>15, <2>16
<1>11. CASE File!Commit
  <2>1. writer.at = "commit" /\ writer \in Writing /\ WriterRight
    BY <1>3, <1>11 DEF File!Commit
  <2>2. PICK tmp \in TmpNames : tmp = writer.tmp
    BY <2>1 DEF Writing
  <2>3. PICK v \in Versions : writer.image = File!Image(Magic, v)
    BY <2>1 DEF Writing
  <2>4. PICK I : I = File!Image(Magic, v)
    OBVIOUS
  <2>5. I \in Seq(Cells) /\ Len(I) = 4 /\ Piece(I)
    <3>1. Magic \in Magics
      BY DEF Magics
    <3>2. Whole(I)
      BY <2>4, <3>1 DEF Whole
    <3> QED
      BY <2>4, <3>1, <3>2, ImageParts, WholeIsPiece
  <2>6. tmp \notin torn /\ disk[tmp] = I /\ tmp \in File!Files /\ tmp # "peers.dat"
    BY <1>1, <2>1, <2>2, <2>3, <2>4 DEF WriterRight
  <2>7. writer' = [writer EXCEPT !.at = "rename"] /\ UNCHANGED <<addrman, before, loaded>>
    BY <1>11 DEF File!Commit
  <2>8. writer' \in Writing /\ writer'.tmp = tmp /\ writer'.image = I /\ writer'.at = "rename"
    BY <2>1, <2>2, <2>3, <2>4, <2>7 DEF Writing
  <2>9. CASE durable' = [durable EXCEPT ![tmp] = Len(disk[tmp])] /\ disk' = disk /\ torn' = torn
    <3>1. durable' = [durable EXCEPT ![tmp] = 4]
      BY <2>5, <2>6, <2>9
    <3>2. FilesRight'
      <4>1. \A f \in File!Files : durable'[f] = IF f = tmp THEN 4 ELSE durable[f]
        BY <1>2, <3>1 DEF FilesRight
      <4>2. PICK d \in 0..4 : d = Len(disk[tmp])
        BY <2>5, <2>6
      <4>3. durable' \in [File!Files -> 0..4] /\ 4 <= Len(disk[tmp])
        BY <1>2, <2>5, <2>6, <3>1, <4>2 DEF FilesRight
      <4> QED
        BY <1>2, <2>9, <4>1, <4>3 DEF FilesRight
    <3>3. WriterRight'
      BY <1>2, <2>5, <2>6, <2>8, <2>9, <3>1 DEF WriterRight, FilesRight
    <3>4. durable'["peers.dat"] = durable["peers.dat"]
      BY <1>1, <1>2, <2>6, <3>1 DEF FilesRight
    <3> QED
      BY <1>2, <1>4, <2>7, <2>8, <2>9, <3>2, <3>3, <3>4
  <2>10. CASE \E n \in 0..3, zeros \in BOOLEAN :
                /\ disk' = [disk EXCEPT ![tmp] = File!Cut(I, n, IF zeros THEN 4 ELSE n)]
                /\ durable' = [durable EXCEPT ![tmp] = IF zeros THEN 4 ELSE n]
                /\ torn' = torn \cup {tmp}
    <3>1. PICK n \in 0..3, k \in 0..4 : /\ disk' = [disk EXCEPT ![tmp] = File!Cut(I, n, k)]
                                        /\ durable' = [durable EXCEPT ![tmp] = k]
                                        /\ torn' = torn \cup {tmp}
      <4>1. PICK n \in 0..3, zeros \in BOOLEAN :
                /\ disk' = [disk EXCEPT ![tmp] = File!Cut(I, n, IF zeros THEN 4 ELSE n)]
                /\ durable' = [durable EXCEPT ![tmp] = IF zeros THEN 4 ELSE n]
                /\ torn' = torn \cup {tmp}
        BY <2>10
      <4>2. PICK k \in 0..4 : k = IF zeros THEN 4 ELSE n
        OBVIOUS
      <4> QED
        BY <4>1, <4>2
    <3>2. PICK c : c = File!Cut(I, n, k)
      OBVIOUS
    <3>3. Piece(c) /\ Len(c) = k
      <4>1. n \in Nat /\ n <= Len(I)
        BY <2>5
      <4> QED
        BY <2>5, <3>2, <4>1, CutPiece
    <3>4. FilesRight'
      <4>1. c \in Seq(Cells)
        BY <3>3 DEF Piece
      <4>2. \A f \in File!Files : disk'[f] = (IF f = tmp THEN c ELSE disk[f])
                                   /\ durable'[f] = (IF f = tmp THEN k ELSE durable[f])
        BY <1>2, <3>1, <3>2 DEF FilesRight
      <4>3. k <= k
        OBVIOUS
      <4> QED
        BY <1>2, <3>1, <3>2, <3>3, <4>1, <4>2, <4>3 DEF FilesRight
    <3>5. tmp \in torn'
      BY <3>1
    <3>6. WriterRight'
      BY <2>8, <3>5 DEF WriterRight
    <3>7. disk'["peers.dat"] = disk["peers.dat"] /\ durable'["peers.dat"] = durable["peers.dat"]
          /\ ("peers.dat" \in torn' <=> "peers.dat" \in torn)
      BY <1>1, <1>2, <2>6, <3>1 DEF FilesRight
    <3> QED
      BY <1>2, <1>4, <2>7, <2>8, <3>4, <3>6, <3>7
  <2> QED
    BY <1>11, <2>2, <2>6, <2>9, <2>10 DEF File!Commit, File!Committed
<1>12. CASE File!Rename
  <2>1. writer.at = "rename" /\ writer \in Writing /\ WriterRight
    BY <1>3, <1>12 DEF File!Rename
  <2>2. PICK tmp \in TmpNames : tmp = writer.tmp
    BY <2>1 DEF Writing
  <2>3. tmp \in File!Files /\ tmp # "peers.dat"
    BY <1>1
  <2>4. /\ disk' = [disk EXCEPT !["peers.dat"] = disk[tmp], ![tmp] = << >>]
        /\ durable' = [durable EXCEPT !["peers.dat"] = durable[tmp], ![tmp] = 0]
        /\ before' = IF "peers.dat" \in torn THEN before ELSE disk["peers.dat"]
        /\ torn' = (torn \ {tmp, "peers.dat"}) \cup (IF tmp \in torn THEN {"peers.dat"} ELSE {})
        /\ writer' = [at |-> "idle"] /\ UNCHANGED <<addrman, loaded>>
    BY <1>12, <2>2 DEF File!Rename, File!Finish
  <2>5. Piece(<< >>) /\ << >> \in Seq(Cells) /\ Len(<< >>) = 0
    BY WholeIsPiece DEF Whole
  <2>6. \A f \in File!Files :
          /\ disk'[f] = IF f = tmp THEN << >> ELSE IF f = "peers.dat" THEN disk[tmp] ELSE disk[f]
          /\ durable'[f] = IF f = tmp THEN 0 ELSE IF f = "peers.dat" THEN durable[tmp] ELSE durable[f]
    BY <1>1, <1>2, <2>3, <2>4 DEF FilesRight
  <2>7. FilesRight'
    <3>1. \A f \in File!Files : disk'[f] \in Seq(Cells) /\ durable'[f] \in 0..4
      <4>1. \A f \in File!Files : disk[f] \in Seq(Cells) /\ durable[f] \in 0..4
        BY <1>2 DEF FilesRight
      <4>2. 0 \in 0..4
        OBVIOUS
      <4> QED
        BY <2>3, <2>5, <2>6, <4>1, <4>2, Zenon
    <3>2. disk' = [f \in File!Files |-> disk'[f]] /\ durable' = [f \in File!Files |-> durable'[f]]
      BY <1>2, <2>4 DEF FilesRight
    <3>3. disk' \in [File!Files -> Seq(Cells)] /\ durable' \in [File!Files -> 0..4]
      BY <3>1, <3>2
    <3>4. 0 <= Len(<< >>)
      BY <2>5
    <3>5. \A f \in File!Files : Piece(disk'[f]) /\ durable'[f] <= Len(disk'[f])
      BY <1>2, <2>3, <2>5, <2>6, <3>4 DEF FilesRight
    <3> QED
      BY <3>3, <3>5 DEF FilesRight
  <2>8. Whole(before')
    BY <1>2, <2>4
  <2>9. "peers.dat" \notin torn' => Whole(disk'["peers.dat"]) /\ durable'["peers.dat"] = Len(disk'["peers.dat"])
    <3> SUFFICES ASSUME tmp \notin torn
                 PROVE  Whole(disk'["peers.dat"]) /\ durable'["peers.dat"] = Len(disk'["peers.dat"])
      BY <2>4
    <3>1. PICK v \in Versions : writer.image = File!Image(Magic, v)
      BY <2>1 DEF Writing
    <3>2. PICK I : I = File!Image(Magic, v)
      OBVIOUS
    <3>3. disk[tmp] = I /\ durable[tmp] = 4
      BY <2>1, <2>2, <3>1, <3>2 DEF WriterRight
    <3>4. Magic \in Magics
      BY DEF Magics
    <3>5. Whole(I) /\ Len(I) = 4
      BY <3>2, <3>4, ImageParts DEF Whole
    <3> QED
      BY <1>1, <2>3, <2>6, <3>3, <3>5
  <2>10. addrman' = addrman /\ loaded' = loaded /\ writer' = [at |-> "idle"]
    BY <2>4
  <2> QED
    BY <1>2, <1>4, <2>7, <2>8, <2>9, <2>10
<1>13. CASE File!Crash
  <2>1. PICK more \in [File!Files -> 0..4], zeros \in BOOLEAN :
          /\ \A f \in File!Files : durable[f] + more[f] <= Len(disk[f])
          /\ disk' = [f \in File!Files |-> File!Cut(disk[f],
                           IF zeros THEN durable[f] ELSE durable[f] + more[f], durable[f] + more[f])]
          /\ durable' = [f \in File!Files |-> durable[f] + more[f]]
    BY <1>13 DEF File!Crash
  <2>2. addrman' = 0 /\ writer' = [at |-> "idle"] /\ UNCHANGED <<before, loaded, torn>>
    BY <1>13 DEF File!Crash
  <2>3. \A f \in File!Files :
          /\ Piece(disk'[f]) /\ durable'[f] \in 0..4 /\ Len(disk'[f]) = durable'[f]
          /\ durable[f] = Len(disk[f]) => disk'[f] = disk[f]
    <3> TAKE f \in File!Files
    <3>1. PICK q : q = disk[f]
      OBVIOUS
    <3>2. Piece(q)
      BY <1>2, <3>1 DEF FilesRight
    <3>3. PICK len \in 0..4 : len = Len(q)
      BY <3>2 DEF Piece
    <3>4. PICK d \in 0..4 : d = durable[f]
      BY <1>2 DEF FilesRight
    <3>5. PICK m \in 0..4 : m = more[f]
      OBVIOUS
    <3>6. d + m <= len
      BY <2>1, <3>1, <3>3, <3>4, <3>5
    <3>7. PICK n \in Nat : n = (IF zeros THEN d ELSE d + m)
      OBVIOUS
    <3>8. n <= len /\ d + m \in 0..4
      BY <3>6, <3>7
    <3>9. disk'[f] = File!Cut(q, n, d + m) /\ durable'[f] = d + m
      BY <2>1, <3>1, <3>4, <3>5, <3>7
    <3>10. Piece(File!Cut(q, n, d + m)) /\ Len(File!Cut(q, n, d + m)) = d + m
      <4>1. n <= Len(q)
        BY <3>3, <3>8
      <4> QED
        BY <3>2, <3>8, <4>1, CutPiece
    <3>11. d = len => n = len /\ d + m = len
      BY <3>6, <3>7
    <3>12. d = len => File!Cut(q, n, d + m) = q
      BY <3>2, <3>3, <3>11, CutNothing
    <3> QED
      BY <3>1, <3>3, <3>4, <3>8, <3>9, <3>10, <3>12
  <2>4. FilesRight'
    <3>1. \A f \in File!Files : disk'[f] \in Seq(Cells) /\ durable'[f] \in 0..4
      BY <2>3 DEF Piece
    <3>2. disk' = [f \in File!Files |-> disk'[f]] /\ durable' = [f \in File!Files |-> durable'[f]]
      BY <2>1
    <3>3. disk' \in [File!Files -> Seq(Cells)] /\ durable' \in [File!Files -> 0..4]
      BY <3>1, <3>2
    <3>4. \A f \in File!Files : durable'[f] <= Len(disk'[f])
      BY <2>3
    <3> QED
      BY <2>3, <3>3, <3>4 DEF FilesRight
  <2>5. 0 \in Versions
    BY NetworkAssumption DEF Versions
  <2>6. "peers.dat" \notin torn =>
          Whole(disk'["peers.dat"]) /\ durable'["peers.dat"] = Len(disk'["peers.dat"])
    BY <1>1, <1>2, <2>3
  <2>7. Whole(before') /\ (loaded' # << >> => loaded'[1] = loaded'[2])
    BY <1>2, <2>2
  <2>8. torn' = torn /\ addrman' = 0 /\ writer' = [at |-> "idle"]
    BY <2>2
  <2> QED
    BY <1>4, <2>4, <2>5, <2>6, <2>7, <2>8
<1>14. CASE File!CrashUndone
  <2>1. /\ disk' = [disk EXCEPT !["peers.dat"] = before]
        /\ durable' = [f \in File!Files |-> Len(disk'[f])]
        /\ addrman' = 0 /\ writer' = [at |-> "idle"] /\ UNCHANGED <<before, loaded>>
    BY <1>14 DEF File!CrashUndone
  <2>2. Piece(before)
    BY <1>2, WholeIsPiece
  <2>3. \A f \in File!Files : Piece(disk'[f]) /\ durable'[f] = Len(disk'[f])
    BY <1>1, <1>2, <2>1, <2>2 DEF FilesRight
  <2>4. \A f \in File!Files : disk'[f] \in Seq(Cells) /\ durable'[f] \in 0..4
    BY <2>3 DEF Piece
  <2>5. FilesRight'
    <3>1. disk' = [f \in File!Files |-> disk'[f]] /\ durable' = [f \in File!Files |-> durable'[f]]
      BY <1>2, <2>1 DEF FilesRight
    <3>2. disk' \in [File!Files -> Seq(Cells)] /\ durable' \in [File!Files -> 0..4]
      BY <2>4, <3>1
    <3>3. \A f \in File!Files : durable'[f] <= Len(disk'[f])
      BY <2>3, <2>4
    <3> QED
      BY <2>3, <3>2, <3>3 DEF FilesRight
  <2>6. disk'["peers.dat"] = before
    BY <1>1, <1>2, <2>1 DEF FilesRight
  <2>7. 0 \in Versions
    BY NetworkAssumption DEF Versions
  <2>8. Whole(before') /\ (loaded' # << >> => loaded'[1] = loaded'[2])
    BY <1>2, <2>1
  <2>9. addrman' = 0 /\ writer' = [at |-> "idle"]
    BY <2>1
  <2>10. Whole(disk'["peers.dat"]) /\ durable'["peers.dat"] = Len(disk'["peers.dat"])
    BY <1>1, <1>2, <2>3, <2>6
  <2> QED
    BY <1>4, <2>5, <2>7, <2>8, <2>9, <2>10
<1> QED
  BY <1>5, <1>6, <1>7, <1>8, <1>9, <1>10, <1>11, <1>12, <1>13, <1>14 DEF File!Next

\* What the invariant says of peers.dat and of what was loaded.
LEMMA FileSound == FileInv => File!PeersDatWhole /\ File!LoadedWhole
  BY DEF FileInv, Whole, Magics, Versions, File!PeersDatWhole, File!LoadedWhole, File!PeersDat,
         File!NoFile, File!Nothing

-----------------------------------------------------------------------------
(* The alerts a node keeps *)

\* The clock may go back, so that an alert that has expired is in effect again: what
\* makes NoneCancelled inductive is to forget whether it is.
AlertsApart(S, gone) == \A a, b \in S : a # b /\ a \notin gone => ~Al!Names(a, b)
AlertInv ==
    /\ AlertsApart(mapAlerts, lapsed)
    /\ shown \subseteq mapAlerts
    /\ now \in Nat

-----------------------------------------------------------------------------
\* IsInEffect() says yes or no.
LEMMA ReadingsType ==
    ASSUME NEW a, NEW span
    PROVE  Al!Readings(a, span) \subseteq BOOLEAN
<1>1. ASSUME NEW t PROVE (t < a.nExpiration) \in BOOLEAN
  OBVIOUS
<1>2. \A r \in Al!Readings(a, span) : \E t \in span : r = (t < a.nExpiration)
  BY Zenon DEF Al!Readings
<1> QED
  BY <1>1, <1>2

\* An alert that stays was in effect in one comparison at least, and what is processed
\* does not cancel it if it is in effect throughout.
LEMMA StayingDoes ==
    ASSUME NEW c, NEW b, NEW span, TRUE \in Al!Stays(c, b, span)
    PROVE  /\ TRUE \in Al!Readings(b, span)
           /\ Al!Names(c, b) => FALSE \in Al!Readings(c, span)
<1>1. PICK x \in Al!Readings(c, span), y \in Al!Readings(b, span) :
         TRUE = (~(x /\ Al!Names(c, b)) /\ y)
  BY Zenon DEF Al!Stays
<1>2. x \in BOOLEAN /\ y \in BOOLEAN
  BY ReadingsType
<1>3. y = TRUE /\ (Al!Names(c, b) => x = FALSE)
  BY <1>1, <1>2
<1> QED
  BY <1>1, <1>3

\* What a call does to the map, told by what it compared.
Processed(c, span, kept, refused) ==
    /\ kept \subseteq mapAlerts
    /\ \A b \in kept : TRUE \in Al!Stays(c, b, span)
    /\ ~refused => \A b \in kept : Al!Names(b, c) => FALSE \in Al!Readings(b, span)
    /\ mapAlerts' = kept \cup (IF refused THEN {} ELSE {c})
    /\ shown' \subseteq (shown \cap kept) \cup (IF refused THEN {} ELSE {c})
    /\ lapsed' = mapAlerts' \cap
          (lapsed \cup {b \in mapAlerts' : BOOLEAN \subseteq Al!Readings(b, span)})
    /\ TRUE \in Al!Readings(c, span)
    /\ now' \in Nat
LEMMA ProcessAlertDoes ==
    ASSUME AlertInv, NEW c, Al!ProcessAlert(c)
    PROVE  \E span, kept, refused : Processed(c, span, kept, refused)
<1>1. PICK first \in {t \in 0..now : now - t <= AlertDrift},
           last \in {t \in now..AlertTime : t - now <= AlertDrift}, kept \in SUBSET mapAlerts :
         /\ \A b \in mapAlerts : (b \in kept) \in Al!Stays(c, b, first..last)
         /\ \E refused \in Al!Refused(c, kept, first..last),
               tell \in Al!Readings(c, first..last) :
              Al!Kept(c, kept, refused, tell /\ Al!ConcernsMe(c))
         /\ lapsed' = mapAlerts' \cap
               (lapsed \cup {b \in mapAlerts' : BOOLEAN \subseteq Al!Readings(b, first..last)})
         /\ now' \in first..last
  BY DEF Al!ProcessAlert
<1>2. first \in Nat /\ last \in Int /\ now \in Int /\ first <= now /\ now <= last
  BY <1>1 DEF AlertInv
<1> DEFINE span == first..last
<1>3. now \in span /\ now' \in Nat
  BY <1>1, <1>2
<1>4. now < c.nExpiration
  BY DEF Al!ProcessAlert, Al!IsInEffect
<1> HIDE DEF span
<1>5. TRUE \in Al!Readings(c, span)
  BY <1>3, <1>4 DEF Al!Readings
<1>6. \A b \in kept : TRUE \in Al!Stays(c, b, span)
  <2> SUFFICES ASSUME NEW b \in kept PROVE TRUE \in Al!Stays(c, b, span)
    OBVIOUS
  <2>1. b \in mapAlerts /\ (b \in kept) = TRUE
    BY <1>1
  <2>2. (b \in kept) \in Al!Stays(c, b, span)
    BY <1>1, <2>1 DEF span
  <2> QED
    BY <2>1, <2>2
<1>7. PICK refused \in Al!Refused(c, kept, span), tell \in Al!Readings(c, span) :
         Al!Kept(c, kept, refused, tell /\ Al!ConcernsMe(c))
  BY <1>1 DEF span
<1>8. ~refused => \A b \in kept : Al!Names(b, c) => FALSE \in Al!Readings(b, span)
  BY <1>7 DEF Al!Refused
<1>9. /\ mapAlerts' = kept \cup (IF refused THEN {} ELSE {c})
      /\ shown' \subseteq (shown \cap kept) \cup (IF refused THEN {} ELSE {c})
  BY <1>7 DEF Al!Kept
<1>10. /\ kept \subseteq mapAlerts
       /\ lapsed' = mapAlerts' \cap
             (lapsed \cup {b \in mapAlerts' : BOOLEAN \subseteq Al!Readings(b, span)})
  BY <1>1 DEF span
<1> QED
  BY <1>3, <1>5, <1>6, <1>8, <1>9, <1>10 DEF Processed

\* ProcessAlert looks at every alert it keeps from both sides, and expires first: it
\* looks at each while it is in effect, unless the time passes the alert's end meanwhile.
LEMMA ProcessAlertStep ==
    ASSUME AlertInv, NEW c, Al!ProcessAlert(c)
    PROVE  AlertInv'
<1>1. PICK span, kept, refused : Processed(c, span, kept, refused)
  BY ProcessAlertDoes
<1>2. \A b \in kept : /\ TRUE \in Al!Readings(b, span)
                      /\ Al!Names(c, b) => FALSE \in Al!Readings(c, span)
  BY <1>1, StayingDoes DEF Processed
<1>3. \A a \in mapAlerts' : a \notin lapsed' => a \notin lapsed /\ ~(BOOLEAN \subseteq Al!Readings(a, span))
  BY <1>1 DEF Processed
<1>4. AlertsApart(mapAlerts', lapsed')
  <2> SUFFICES ASSUME NEW a \in mapAlerts', NEW b \in mapAlerts', a # b, a \notin lapsed',
                      Al!Names(a, b)
               PROVE  FALSE
    BY DEF AlertsApart
  <2>1. a \in kept \/ (a = c /\ ~refused)
    BY <1>1 DEF Processed
  <2>2. b \in kept \/ (b = c /\ ~refused)
    BY <1>1 DEF Processed
  <2>3. CASE a \in kept /\ b \in kept
    BY <1>1, <1>3, <2>3 DEF AlertInv, AlertsApart, Processed
  <2>4. CASE a = c /\ b \in kept
    <3>1. FALSE \in Al!Readings(a, span) /\ TRUE \in Al!Readings(a, span)
      BY <1>1, <1>2, <2>4 DEF Processed
    <3> QED
      BY <1>3, <3>1
  <2>5. CASE a \in kept /\ b = c /\ ~refused
    <3>1. FALSE \in Al!Readings(a, span) /\ TRUE \in Al!Readings(a, span)
      BY <1>1, <1>2, <2>5 DEF Processed
    <3> QED
      BY <1>3, <3>1
  <2> QED
    BY <2>1, <2>2, <2>3, <2>4, <2>5
<1>5. shown' \subseteq mapAlerts' /\ now' \in Nat
  BY <1>1 DEF Processed
<1>6. AlertInv' <=> AlertsApart(mapAlerts', lapsed') /\ shown' \subseteq mapAlerts' /\ now' \in Nat
  BY DEF AlertInv, AlertsApart, Al!Names
<1> QED
  BY <1>4, <1>5, <1>6

\* Whatever arrives, is relayed, or the time does.
LEMMA AlertStep == AlertInv /\ [Al!Next]_(Al!vars) => AlertInv'
<1> SUFFICES ASSUME AlertInv, [Al!Next]_(Al!vars) PROVE AlertInv'
  OBVIOUS
<1>1. ASSUME NEW a \in AlertSet, Al!ProcessAlert(a) PROVE AlertInv'
  BY <1>1, ProcessAlertStep
<1>2. ASSUME NEW a \in AlertSet, NEW p \in AlertPeers, Al!RelayTo(a, p) PROVE AlertInv'
  BY <1>2 DEF AlertInv, AlertsApart, Al!RelayTo, Al!Names
<1>3. CASE Al!Clock
  BY <1>3 DEF AlertInv, AlertsApart, Al!Clock, Al!Names
<1>4. CASE UNCHANGED Al!vars
  BY <1>4 DEF AlertInv, AlertsApart, Al!vars, Al!Names
<1> QED
  BY <1>1, <1>2, <1>3, <1>4 DEF Al!Next

\* A node begins with no alerts.
LEMMA AlertInit == Al!Init => AlertInv
BY DEF Al!Init, AlertInv, AlertsApart

\* ProcessAlert(): of two alerts that are kept neither cancels the other, in whatever
\* order they came and wherever the clock goes, unless one expired during a call.
THEOREM KeptAlertsStand == Al!Spec => []Al!NoneCancelled
<1>1. AlertInv => Al!NoneCancelled
  BY DEF AlertInv, AlertsApart, Al!NoneCancelled, Al!Cancels
<1> QED
  BY AlertInit, AlertStep, <1>1, PTL DEF Al!Spec

\* NotifyAlertChanged: the interface shows only alerts that are kept.
THEOREM ShownAlertsKept == Al!Spec => []Al!ShownKept
<1>1. AlertInv => Al!ShownKept
  BY DEF AlertInv, Al!ShownKept
<1> QED
  BY AlertInit, AlertStep, <1>1, PTL DEF Al!Spec

-----------------------------------------------------------------------------
(* What a node stores *)

\* No step is of another part than the behaviour's.
LEMMA PartKept == [PartsNext]_partsVars => part' = part
  BY DEF partsVars, PartsNext, AskNext, RelayNext, LocalNext, BanNext, FileNext,
         AlertNext

StoredInv == (part = "file" => FileInv) /\ (part = "alert" => AlertInv)

\* CAddrDB and ProcessAlert: wherever the program stops and whatever flush fails, no start
\* loads half a snapshot, and peers.dat is whole unless a flush of it failed; of the
\* alerts that are kept none cancels another, unless it expired during a call that kept
\* it, and those shown are kept.
THEOREM StoredIsSound == PartsSpec => []StoredSound
<1>1. PartsInit => StoredInv
  BY FileStart, AlertInit DEF PartsInit, StoredInv
<1>2. StoredInv /\ [PartsNext]_partsVars => StoredInv'
  <2> SUFFICES ASSUME StoredInv, [PartsNext]_partsVars PROVE StoredInv'
    OBVIOUS
  <2>1. part' = part
    BY PartKept
  <2>2. CASE part = "file"
    <3>1. CASE FileNext
      BY <2>1, <2>2, <3>1, FileStep DEF FileNext, StoredInv
    <3>2. CASE UNCHANGED partsVars
      <4>1. UNCHANGED file
        BY <3>2 DEF partsVars
      <4> QED
        BY <2>1, <2>2, <4>1 DEF FileInv, FilesRight, WriterRight, file, StoredInv
    <3> QED
      BY <2>2, <3>1, <3>2 DEF PartsNext, AskNext, RelayNext, LocalNext, BanNext, AlertNext
  <2>3. CASE part = "alert"
    <3>1. CASE AlertNext
      BY <2>1, <2>3, <3>1, AlertStep DEF AlertNext, StoredInv
    <3>2. CASE UNCHANGED partsVars
      <4>1. UNCHANGED Al!vars
        BY <3>2 DEF partsVars, al, Al!vars
      <4> QED
        BY <2>1, <2>3, <4>1, AlertStep DEF StoredInv
    <3> QED
      BY <2>3, <3>1, <3>2 DEF PartsNext, AskNext, RelayNext, LocalNext, BanNext, FileNext
  <2> QED
    BY <2>1, <2>2, <2>3 DEF StoredInv
<1>3. StoredInv => StoredSound
  <2>1. AlertInv => Al!NoneCancelled /\ Al!ShownKept
    BY DEF AlertInv, AlertsApart, Al!NoneCancelled, Al!ShownKept, Al!Cancels
  <2> QED
    BY <2>1, FileSound DEF StoredSound, StoredInv
<1> QED
  BY <1>1, <1>2, <1>3, PTL DEF PartsSpec

-----------------------------------------------------------------------------
(* Sequences that name each member of a set once: rmap and queue *)

Perm(q, n, S) ==
    /\ q \in Seq(S) /\ Len(q) = n
    /\ \A i, j \in 1..n : q[i] = q[j] => i = j
    /\ \A x \in S : \E i \in 1..n : q[i] = x

\* r, of members of S, is q with x put in after the first k.
Grown(q, n, k, x, r, S) ==
    /\ r \in Seq(S) /\ Len(r) = n + 1
    /\ \A i \in 1..(n + 1) : r[i] = IF i <= k THEN q[i] ELSE IF i = k + 1 THEN x ELSE q[i - 1]

\* r, of members of S, is q without the one at k.
Shrunk(q, n, k, r, S) ==
    /\ r \in Seq(S) /\ Len(r) = n - 1
    /\ \A i \in 1..(n - 1) : r[i] = IF i < k THEN q[i] ELSE q[i + 1]

LEMMA PermCounts ==
    ASSUME NEW S, NEW q, NEW n \in Nat, Perm(q, n, S)
    PROVE  IsFiniteSet(S) /\ Cardinality(S) = n
<1>1. q \in [1..n -> S] /\ \A i, j \in 1..n : q[i] = q[j] => i = j
  BY DEF Perm
<1>2. \A x \in S : \E i \in 1..n : q[i] = x
  BY DEF Perm
<1>3. q \in Bijection(1..n, S)
  BY <1>1, <1>2 DEF Bijection, Injection, Surjection, IsInjective
<1>4. ExistsBijection(1..n, S)
  BY <1>3 DEF ExistsBijection
<1>5. IsFiniteSet(1..n) /\ Cardinality(1..n) = n
  <2>1. IsFiniteSet(1..n) /\ Cardinality(1..n) = IF 1 > n THEN 0 ELSE n - 1 + 1
    BY FS_Interval
  <2> QED
    BY <2>1
<1> QED
  BY <1>4, <1>5, FS_Bijection

LEMMA PermGrows ==
    ASSUME NEW S, NEW q, NEW n \in Nat, Perm(q, n, S), NEW k \in 0..n, NEW x, x \notin S,
           NEW r, Grown(q, n, k, x, r, S \cup {x})
    PROVE  Perm(r, n + 1, S \cup {x})
<1>1. /\ \A i \in 1..n : q[i] \in S
      /\ \A i, j \in 1..n : q[i] = q[j] => i = j
      /\ \A y \in S : \E i \in 1..n : q[i] = y
  BY DEF Perm
<1>2. /\ \A i \in 1..(n + 1) : r[i] = IF i <= k THEN q[i] ELSE IF i = k + 1 THEN x ELSE q[i - 1]
      /\ r \in Seq(S \cup {x}) /\ Len(r) = n + 1
  BY DEF Grown
<1>3. \A i, j \in 1..(n + 1) : r[i] = r[j] => i = j
  <2> SUFFICES ASSUME NEW i \in 1..(n + 1), NEW j \in 1..(n + 1), r[i] = r[j] PROVE i = j
    OBVIOUS
  <2> DEFINE At(l) == IF l <= k THEN l ELSE l - 1
  <2>1. ASSUME NEW l \in 1..(n + 1), l # k + 1
        PROVE  At(l) \in 1..n /\ r[l] = q[At(l)] /\ r[l] # x
    <3>1. At(l) \in 1..n
      BY <2>1
    <3>2. r[l] = q[At(l)]
      BY <1>2, <2>1
    <3> QED
      BY <1>1, <3>1, <3>2
  <2>2. r[k + 1] = x
    BY <1>2
  <2>3. CASE i = k + 1 \/ j = k + 1
    BY <2>1, <2>2, <2>3
  <2>4. CASE i # k + 1 /\ j # k + 1
    <3>1. At(i) = At(j)
      BY <1>1, <2>1, <2>4
    <3> QED
      BY <2>4, <3>1
  <2> QED
    BY <2>3, <2>4
<1>4. \A y \in S \cup {x} : \E i \in 1..(n + 1) : r[i] = y
  <2> TAKE y \in S \cup {x}
  <2>1. CASE y = x
    <3>1. r[k + 1] = x /\ k + 1 \in 1..(n + 1)
      BY <1>2
    <3> QED
      BY <2>1, <3>1
  <2>2. CASE y \in S
    <3>1. PICK i \in 1..n : q[i] = y
      BY <1>1, <2>2
    <3>2. CASE i <= k
      BY <1>2, <3>1, <3>2
    <3>3. CASE i > k
      <4>1. r[i + 1] = q[i] /\ i + 1 \in 1..(n + 1)
        BY <1>2, <3>3
      <4> QED
        BY <3>1, <4>1
    <3> QED
      BY <3>2, <3>3
  <2> QED
    BY <2>1, <2>2
<1> QED
  BY <1>2, <1>3, <1>4 DEF Perm

LEMMA PermShrinks ==
    ASSUME NEW S, NEW q, NEW n \in Nat, Perm(q, n, S), NEW k \in 1..n,
           NEW r, Shrunk(q, n, k, r, S)
    PROVE  Perm(r, n - 1, S \ {q[k]})
<1>1. /\ \A i \in 1..n : q[i] \in S
      /\ \A i, j \in 1..n : q[i] = q[j] => i = j
      /\ \A y \in S : \E i \in 1..n : q[i] = y
  BY DEF Perm
<1>2. /\ \A i \in 1..(n - 1) : r[i] = IF i < k THEN q[i] ELSE q[i + 1]
      /\ r \in Seq(S) /\ Len(r) = n - 1
  BY DEF Shrunk
<1>3. \A i, j \in 1..(n - 1) : r[i] = r[j] => i = j
  <2> SUFFICES ASSUME NEW i \in 1..(n - 1), NEW j \in 1..(n - 1), r[i] = r[j] PROVE i = j
    OBVIOUS
  <2>1. PICK a \in 1..n : a = IF i < k THEN i ELSE i + 1
    OBVIOUS
  <2>2. PICK b \in 1..n : b = IF j < k THEN j ELSE j + 1
    OBVIOUS
  <2>3. r[i] = q[a] /\ r[j] = q[b]
    BY <1>2, <2>1, <2>2
  <2>4. a = b
    BY <1>1, <2>3
  <2> QED
    BY <2>1, <2>2, <2>4
<1>4. \A i \in 1..(n - 1) : r[i] \in S \ {q[k]}
  <2> TAKE i \in 1..(n - 1)
  <2>1. PICK j \in 1..n : r[i] = q[j] /\ j # k
    <3>1. i \in 1..n /\ i + 1 \in 1..n
      OBVIOUS
    <3>2. CASE i < k
      BY <1>2, <3>1, <3>2
    <3>3. CASE i >= k
      BY <1>2, <3>1, <3>3
    <3> QED
      BY <3>2, <3>3
  <2> QED
    BY <1>1, <2>1
<1>5. \A y \in S \ {q[k]} : \E i \in 1..(n - 1) : r[i] = y
  <2> TAKE y \in S \ {q[k]}
  <2>1. PICK i \in 1..n : q[i] = y
    BY <1>1
  <2>2. CASE i < k
    BY <1>2, <2>1, <2>2
  <2>3. CASE i > k
    <3>1. i - 1 \in 1..(n - 1) /\ ~(i - 1 < k) /\ (i - 1) + 1 = i
      BY <2>3
    <3>2. r[i - 1] = q[i]
      BY <1>2, <3>1
    <3> QED
      BY <2>1, <3>1, <3>2
  <2> QED
    BY <2>1, <2>2, <2>3
<1>6. r \in Seq(S \ {q[k]})
  BY <1>2, <1>4
<1> QED
  BY <1>2, <1>3, <1>5, <1>6 DEF Perm

\* r, of members of S, is a and then b.
Joined(r, S, a, b) ==
    /\ r \in Seq(S) /\ Len(r) = Len(a) + Len(b)
    /\ \A i \in 1..(Len(a) + Len(b)) : r[i] = IF i <= Len(a) THEN a[i] ELSE b[i - Len(a)]

LEMMA Joins ==
    ASSUME NEW S, NEW a \in Seq(S), NEW b \in Seq(S), NEW r, r = a \o b
    PROVE  Joined(r, S, a, b)
  BY ConcatProperties DEF Joined

\* What SubSeq returns, for a name.
LEMMA RestOf ==
    ASSUME NEW S, NEW q, NEW m \in Int, NEW n \in Int, \A i \in m..n : q[i] \in S,
           NEW b, b = SubSeq(q, m, n)
    PROVE  /\ b \in Seq(S) /\ Len(b) = IF m <= n THEN n - m + 1 ELSE 0
           /\ \A i \in 1..(n - m + 1) : b[i] = q[m + i - 1]
  BY SubSeqProperties

\* Putting something into a sequence, and taking it out.
LEMMA PutIn ==
    ASSUME NEW S, NEW q \in Seq(S), NEW n \in Nat, Len(q) = n, NEW k \in 0..n, NEW x \in S,
           NEW r, r = SubSeq(q, 1, k) \o <<x>> \o SubSeq(q, k + 1, Len(q))
    PROVE  Grown(q, n, k, x, r, S)
<1>1. PICK a : a = SubSeq(q, 1, k)
  OBVIOUS
<1>2. PICK b : b = SubSeq(q, k + 1, n)
  OBVIOUS
<1>3. \A i \in 1..n : q[i] \in S
  OBVIOUS
<1>4. a \in Seq(S) /\ Len(a) = k /\ \A i \in 1..k : a[i] = q[i]
  <2>1. /\ a \in Seq(S) /\ Len(a) = IF 1 <= k THEN k - 1 + 1 ELSE 0
        /\ \A i \in 1..(k - 1 + 1) : a[i] = q[1 + i - 1]
    BY <1>1, <1>3, SubSeqProperties
  <2> QED
    BY <2>1
<1>5. b \in Seq(S) /\ Len(b) = n - k /\ \A i \in 1..(n - k) : b[i] = q[k + i]
  <2>1. PICK m \in Int : m = k + 1
    OBVIOUS
  <2>2. b = SubSeq(q, m, n) /\ \A i \in m..n : q[i] \in S
    BY <1>2, <1>3, <2>1
  <2>3. /\ b \in Seq(S) /\ Len(b) = IF m <= n THEN n - m + 1 ELSE 0
        /\ \A i \in 1..(n - m + 1) : b[i] = q[m + i - 1]
    BY <2>2, RestOf
  <2>4. n - m + 1 = n - k /\ (IF m <= n THEN n - m + 1 ELSE 0) = n - k
    BY <2>1
  <2>5. \A i \in 1..(n - k) : b[i] = q[k + i]
    <3> TAKE i \in 1..(n - k)
    <3>1. b[i] = q[m + i - 1]
      BY <2>3, <2>4
    <3>2. m + i - 1 = k + i
      BY <2>1
    <3> QED
      BY <3>1, <3>2
  <2> QED
    BY <2>3, <2>4, <2>5
<1>6. PICK c : c = a \o <<x>>
  OBVIOUS
<1>7. <<x>> \in Seq(S) /\ Len(<<x>>) = 1 /\ <<x>>[1] = x
  OBVIOUS
<1>8. c \in Seq(S) /\ Len(c) = k + 1 /\ \A i \in 1..(k + 1) : c[i] = IF i <= k THEN q[i] ELSE x
  <2>1. /\ c \in Seq(S) /\ Len(c) = k + 1
        /\ \A i \in 1..(k + 1) : c[i] = IF i <= k THEN a[i] ELSE <<x>>[i - k]
    BY <1>4, <1>6, <1>7, ConcatProperties
  <2> QED
    BY <1>4, <1>7, <2>1
<1>9. r = c \o b
  BY <1>1, <1>2, <1>6
<1>10. /\ r \in Seq(S) /\ Len(r) = (k + 1) + (n - k)
       /\ \A i \in 1..((k + 1) + (n - k)) : r[i] = IF i <= k + 1 THEN c[i] ELSE b[i - (k + 1)]
  <2>1. Joined(r, S, c, b)
    <3>1. c \in Seq(S) /\ b \in Seq(S)
      BY <1>5, <1>8
    <3> QED
      BY <1>9, <3>1, Joins
  <2>2. Len(c) = k + 1 /\ Len(b) = n - k
    BY <1>5, <1>8
  <2> QED
    BY <2>1, <2>2, Zenon DEF Joined
<1>11. (k + 1) + (n - k) = n + 1
  OBVIOUS
<1>12. \A i \in 1..(n + 1) : r[i] = IF i <= k THEN q[i] ELSE IF i = k + 1 THEN x ELSE q[i - 1]
  <2> TAKE i \in 1..(n + 1)
  <2>1. CASE i <= k + 1
    BY <1>8, <1>10, <1>11, <2>1
  <2>2. CASE i > k + 1
    <3>1. PICK j \in 1..(n - k) : j = i - (k + 1) /\ k + j = i - 1
      BY <2>2
    <3>2. r[i] = b[j]
      <4>1. r[i] = IF i <= k + 1 THEN c[i] ELSE b[i - (k + 1)]
        BY <1>10, <1>11, Zenon
      <4>2. ~(i <= k + 1)
        BY <2>2
      <4>3. r[i] = b[i - (k + 1)]
        BY <4>1, <4>2, Zenon
      <4> QED
        BY <3>1, <4>3, Zenon
    <3>4. b[j] = q[k + j]
      BY <1>5
    <3>3. ~(i <= k) /\ i # k + 1
      BY <2>2
    <3> QED
      BY <3>1, <3>2, <3>3, <3>4
  <2> QED
    BY <2>1, <2>2
<1> QED
  BY <1>10, <1>11, <1>12 DEF Grown

LEMMA TakeOut ==
    ASSUME NEW S, NEW q \in Seq(S), NEW n \in Nat, Len(q) = n, NEW k \in 1..n,
           NEW r, r = SubSeq(q, 1, k - 1) \o SubSeq(q, k + 1, Len(q))
    PROVE  Shrunk(q, n, k, r, S)
<1>1. PICK a : a = SubSeq(q, 1, k - 1)
  OBVIOUS
<1>2. PICK b : b = SubSeq(q, k + 1, n)
  OBVIOUS
<1>3. \A i \in 1..n : q[i] \in S
  OBVIOUS
<1>4. a \in Seq(S) /\ Len(a) = k - 1 /\ \A i \in 1..(k - 1) : a[i] = q[i]
  <2>1. /\ a \in Seq(S) /\ Len(a) = IF 1 <= k - 1 THEN (k - 1) - 1 + 1 ELSE 0
        /\ \A i \in 1..((k - 1) - 1 + 1) : a[i] = q[1 + i - 1]
    <3>1. k - 1 \in Int /\ \A i \in 1..(k - 1) : q[i] \in S
      BY <1>3
    <3> QED
      BY <1>1, <3>1, SubSeqProperties
  <2> QED
    BY <2>1
<1>5. b \in Seq(S) /\ Len(b) = n - k /\ \A i \in 1..(n - k) : b[i] = q[k + i]
  <2>1. PICK m \in Int : m = k + 1
    OBVIOUS
  <2>2. b = SubSeq(q, m, n) /\ \A i \in m..n : q[i] \in S
    BY <1>2, <1>3, <2>1
  <2>3. /\ b \in Seq(S) /\ Len(b) = IF m <= n THEN n - m + 1 ELSE 0
        /\ \A i \in 1..(n - m + 1) : b[i] = q[m + i - 1]
    BY <2>2, RestOf
  <2>4. n - m + 1 = n - k /\ (IF m <= n THEN n - m + 1 ELSE 0) = n - k
    BY <2>1
  <2>5. \A i \in 1..(n - k) : b[i] = q[k + i]
    <3> TAKE i \in 1..(n - k)
    <3>1. b[i] = q[m + i - 1]
      BY <2>3, <2>4
    <3>2. m + i - 1 = k + i
      BY <2>1
    <3> QED
      BY <3>1, <3>2
  <2> QED
    BY <2>3, <2>4, <2>5
<1>6. r = a \o b
  BY <1>1, <1>2
<1>7. /\ r \in Seq(S) /\ Len(r) = (k - 1) + (n - k)
      /\ \A i \in 1..((k - 1) + (n - k)) : r[i] = IF i <= k - 1 THEN a[i] ELSE b[i - (k - 1)]
  <2>1. Joined(r, S, a, b)
    <3>1. a \in Seq(S) /\ b \in Seq(S)
      BY <1>4, <1>5
    <3> QED
      BY <1>6, <3>1, Joins
  <2>2. Len(a) = k - 1 /\ Len(b) = n - k
    BY <1>4, <1>5
  <2> QED
    BY <2>1, <2>2, Zenon DEF Joined
<1>8. (k - 1) + (n - k) = n - 1
  OBVIOUS
<1>9. \A i \in 1..(n - 1) : r[i] = IF i < k THEN q[i] ELSE q[i + 1]
  <2> TAKE i \in 1..(n - 1)
  <2>1. CASE i < k
    BY <1>4, <1>7, <1>8, <2>1
  <2>2. CASE i >= k
    <3>1. PICK j \in 1..(n - k) : j = i - (k - 1) /\ k + j = i + 1
      BY <2>2
    <3>2. r[i] = b[j]
      <4>1. r[i] = IF i <= k - 1 THEN a[i] ELSE b[i - (k - 1)]
        BY <1>7, <1>8, Zenon
      <4>2. ~(i <= k - 1)
        BY <2>2
      <4>3. r[i] = b[i - (k - 1)]
        BY <4>1, <4>2, Zenon
      <4> QED
        BY <3>1, <4>3, Zenon
    <3>4. b[j] = q[k + j]
      BY <1>5
    <3>3. ~(i < k)
      BY <2>2
    <3> QED
      BY <3>1, <3>2, <3>3, <3>4
  <2>3. i < k \/ i >= k
    OBVIOUS
  <2> QED
    BY <2>1, <2>2, <2>3
<1> QED
  BY <1>7, <1>8, <1>9 DEF Shrunk

LEMMA TailTakesOut ==
    ASSUME NEW S, NEW q \in Seq(S), NEW n \in Nat \ {0}, Len(q) = n
    PROVE  Shrunk(q, n, 1, Tail(q), S) /\ Head(q) = q[1] /\ q[1] \in S
<1>1. q # << >>
  OBVIOUS
<1>2. /\ Head(q) \in S /\ Tail(q) \in Seq(S) /\ Len(Tail(q)) = n - 1
      /\ \A i \in 1..Len(Tail(q)) : Tail(q)[i] = q[i + 1]
  BY <1>1, HeadTailProperties
<1> QED
  BY <1>2 DEF Shrunk

\* A set of indices that has what is below each of its own is an initial segment.
LEMMA Initial ==
    ASSUME NEW n \in Nat, NEW S \in SUBSET (1..n), \A i \in S : \A j \in 1..i : j \in S
    PROVE  Cardinality(S) \in 0..n /\ S = 1..Cardinality(S)
<1>1. CASE S = {}
  <2>1. Cardinality(S) = 0
    BY <1>1, FS_EmptySet
  <2> QED
    BY <1>1, <2>1
<1>2. CASE S # {}
  <2>1. PICK m \in S : \A i \in S : i <= m
    BY <1>2, MaxExists
  <2>2. m \in 1..n
    OBVIOUS
  <2>5. \A j \in 1..m : j \in S
    OBVIOUS
  <2>6. \A i \in S : i \in 1..m
    BY <2>1, <2>2
  <2>3. S = 1..m
    BY <2>5, <2>6
  <2>4. Cardinality(1..m) = IF 1 > m THEN 0 ELSE m - 1 + 1
    BY <2>2, FS_Interval
  <2> QED
    BY <2>2, <2>3, <2>4
<1> QED
  BY <1>1, <1>2

-----------------------------------------------------------------------------
(* limitedmap *)

\* An instance has a copy of the operators of the modules it extends.
LEMMA SameCardinality == \A S : Things!Cardinality(S) = Cardinality(S)
  BY DEF Things!Cardinality, Cardinality
LEMMA SameRange == \A f : Things!Range(f) = Range(f)
  BY DEF Things!Range, Range

Ordered(f, q, n) ==
    /\ f \in [DOMAIN f -> Nat] /\ Perm(q, n, DOMAIN f)
    /\ \A i, j \in 1..n : i < j => f[q[i]] <= f[q[j]]

IsWith(h, f, x, v) ==
    /\ DOMAIN h = DOMAIN f \cup {x} /\ h \in [DOMAIN h -> Nat]
    /\ \A y \in DOMAIN h : h[y] = IF y = x THEN v ELSE f[y]
IsWithout(h, f, x) ==
    /\ DOMAIN h = DOMAIN f \ {x} /\ h \in [DOMAIN h -> Nat]
    /\ \A y \in DOMAIN h : h[y] = f[y]

LEMMA WithKeeps ==
    ASSUME NEW f, f \in [DOMAIN f -> Nat], NEW x, NEW v \in Nat
    PROVE  IsWith(Things!With(f, x, v), f, x, v)
  BY DEF Things!With, IsWith

LEMMA WithoutKeeps ==
    ASSUME NEW f, f \in [DOMAIN f -> Nat], NEW x
    PROVE  IsWithout(Things!Without(f, x), f, x)
  BY DEF Things!Without, IsWithout

\* rmap.insert finds the place.
LEMMA PlacedOrdered ==
    ASSUME NEW f, NEW q, NEW n \in Nat, Ordered(f, q, n), NEW x, x \notin DOMAIN f, NEW v \in Nat,
           NEW g, \A y \in DOMAIN f : g[y] = f[y],
           NEW h, h = Things!With(f, x, v), NEW r, r = Things!Placed(g, q, x, v)
    PROVE  Ordered(h, r, n + 1)
<1> DEFINE D == DOMAIN f
           S == {i \in DOMAIN q : g[q[i]] <= v}
<1>1. /\ f \in [D -> Nat] /\ q \in Seq(D) /\ Len(q) = n /\ DOMAIN q = 1..n /\ Perm(q, n, D)
      /\ \A i, j \in 1..n : i < j => f[q[i]] <= f[q[j]]
  BY DEF Ordered, Perm
<1>2. \A i \in 1..n : q[i] \in D /\ f[q[i]] \in Nat /\ g[q[i]] = f[q[i]]
  BY <1>1
<1>3. S \in SUBSET (1..n) /\ \A i \in 1..n : i \in S <=> f[q[i]] <= v
  BY <1>1, <1>2
<1>4. \A i \in S : \A j \in 1..i : j \in S
  <2> TAKE i \in S
  <2> TAKE j \in 1..i
  <2>1. i \in 1..n /\ j \in 1..n /\ f[q[i]] <= v
    BY <1>3
  <2>2. f[q[j]] <= f[q[i]]
    BY <1>1, <1>2, <2>1
  <2>3. f[q[j]] <= v
    BY <1>2, <2>1, <2>2
  <2> QED
    BY <1>3, <2>1, <2>3
<1>5. r = SubSeq(q, 1, Cardinality(S)) \o <<x>> \o SubSeq(q, Cardinality(S) + 1, Len(q))
  <2>1. Things!Placed(g, q, x, v) =
          SubSeq(q, 1, Things!Cardinality(S)) \o <<x>>
            \o SubSeq(q, Things!Cardinality(S) + 1, Len(q))
    BY Zenon DEF Things!Placed
  <2>2. Things!Cardinality(S) = Cardinality(S)
    BY SameCardinality
  <2> QED
    BY <2>1, <2>2, Zenon
<1> HIDE DEF S
<1>6. PICK k \in 0..n : k = Cardinality(S)
  BY <1>3, <1>4, Initial
<1>7. S = 1..k
  BY <1>3, <1>4, <1>6, Initial
<1>8. \A i \in 1..n : i <= k <=> f[q[i]] <= v
  BY <1>3, <1>7
<1>9. Grown(q, n, k, x, r, D \cup {x})
  <2> DEFINE T == D \cup {x}
  <2>1. q \in Seq(T) /\ x \in T
    BY <1>1
  <2>2. r = SubSeq(q, 1, k) \o <<x>> \o SubSeq(q, k + 1, Len(q))
    BY <1>5, <1>6
  <2>3. Len(q) = n
    BY <1>1
  <2> HIDE DEF T
  <2>4. Grown(q, n, k, x, r, T)
    BY <2>1, <2>2, <2>3, PutIn
  <2> QED
    BY <2>4 DEF T
<1>10. Perm(r, n + 1, D \cup {x})
  BY <1>1, <1>9, PermGrows
<1>11. /\ DOMAIN h = D \cup {x} /\ h \in [DOMAIN h -> Nat]
       /\ \A y \in DOMAIN h : h[y] = IF y = x THEN v ELSE f[y]
  <2>1. f \in [DOMAIN f -> Nat]
    BY DEF Ordered
  <2>2. IsWith(h, f, x, v)
    BY <2>1, WithKeeps
  <2> QED
    BY <2>2 DEF IsWith
<1>12. \A i \in 1..n : h[q[i]] = f[q[i]]
  BY <1>2, <1>11
<1>13. h[x] = v
  BY <1>11
<1>14. \A i, j \in 1..(n + 1) : i < j => h[r[i]] <= h[r[j]]
  <2> SUFFICES ASSUME NEW i \in 1..(n + 1), NEW j \in 1..(n + 1), i < j
               PROVE  h[r[i]] <= h[r[j]]
    OBVIOUS
  <2>1. \A a \in 1..(n + 1) : r[a] = IF a <= k THEN q[a] ELSE IF a = k + 1 THEN x ELSE q[a - 1]
    BY <1>9 DEF Grown
  <2>2. CASE j <= k
    <3>1. i \in 1..n /\ j \in 1..n /\ r[i] = q[i] /\ r[j] = q[j]
      BY <2>1, <2>2
    <3> QED
      BY <1>1, <1>12, <3>1
  <2>3. CASE i <= k /\ j = k + 1
    <3>1. i \in 1..n /\ r[i] = q[i] /\ r[j] = x
      BY <2>1, <2>3
    <3> QED
      BY <1>8, <1>12, <1>13, <2>3, <3>1
  <2>4. CASE i <= k /\ j > k + 1
    <3>1. PICK b \in 1..n : b = j - 1 /\ i < b
      BY <2>4
    <3>2. i \in 1..n /\ r[i] = q[i] /\ r[j] = q[b]
      BY <2>1, <2>4, <3>1
    <3> QED
      BY <1>1, <1>12, <3>1, <3>2
  <2>5. CASE i = k + 1
    <3>1. PICK b \in 1..n : b = j - 1 /\ ~(b <= k)
      BY <2>5
    <3>2. r[i] = x /\ r[j] = q[b]
      BY <2>1, <2>5, <3>1
    <3>3. v <= f[q[b]]
      BY <1>2, <1>8, <3>1
    <3> QED
      BY <1>12, <1>13, <3>2, <3>3
  <2>6. CASE i > k + 1
    <3>1. PICK a \in 1..n, b \in 1..n : a = i - 1 /\ b = j - 1 /\ a < b
      BY <2>6
    <3>2. r[i] = q[a] /\ r[j] = q[b]
      BY <2>1, <2>6, <3>1
    <3> QED
      BY <1>1, <1>12, <3>1, <3>2
  <2> QED
    BY <2>2, <2>3, <2>4, <2>5, <2>6
<1> QED
  BY <1>10, <1>11, <1>14 DEF Ordered

\* What is erased from both leaves both in order.
LEMMA ShrunkOrdered ==
    ASSUME NEW f, NEW q, NEW n \in Nat, Ordered(f, q, n), NEW k \in 1..n,
           NEW r, Shrunk(q, n, k, r, DOMAIN f),
           NEW h, h = Things!Without(f, q[k])
    PROVE  Ordered(h, r, n - 1)
<1> DEFINE D == DOMAIN f
<1>1. /\ f \in [D -> Nat] /\ Perm(q, n, D)
      /\ \A i, j \in 1..n : i < j => f[q[i]] <= f[q[j]]
  BY DEF Ordered
<1>2. DOMAIN h = D \ {q[k]} /\ h \in [DOMAIN h -> Nat] /\ \A y \in DOMAIN h : h[y] = f[y]
  <2>1. f \in [DOMAIN f -> Nat]
    BY DEF Ordered
  <2> QED
    BY <2>1, WithoutKeeps DEF IsWithout
<1>3. Perm(r, n - 1, DOMAIN h)
  BY <1>1, <1>2, PermShrinks
<1>4. \A i \in 1..(n - 1) : h[r[i]] = f[r[i]]
  BY <1>2, <1>3 DEF Perm
<1>5. \A i \in 1..(n - 1) : r[i] = IF i < k THEN q[i] ELSE q[i + 1]
  BY DEF Shrunk
<1>6. \A i, j \in 1..(n - 1) : i < j => h[r[i]] <= h[r[j]]
  <2> SUFFICES ASSUME NEW i \in 1..(n - 1), NEW j \in 1..(n - 1), i < j
               PROVE  h[r[i]] <= h[r[j]]
    OBVIOUS
  <2>1. PICK a \in 1..n : a = IF i < k THEN i ELSE i + 1
    OBVIOUS
  <2>2. PICK b \in 1..n : b = IF j < k THEN j ELSE j + 1
    OBVIOUS
  <2>3. r[i] = q[a] /\ r[j] = q[b] /\ a < b
    BY <1>5, <2>1, <2>2
  <2> QED
    BY <1>1, <1>4, <2>3
<1> QED
  BY <1>2, <1>3, <1>6 DEF Ordered

\* mapAlreadyAskedFor, with n entries.
Counted(m, n) == DOMAIN m.map \subseteq Inv /\ Ordered(m.map, m.rmap, n)

LEMMA MapInsertKeeps ==
    ASSUME NEW m, NEW n \in 0..(MaxAlreadyAsked - 1), Counted(m, n),
           NEW k \in Inv, k \notin DOMAIN m.map, NEW v \in Nat,
           NEW a, a = Things!MapInsert(m, k, v, MaxAlreadyAsked)
    PROVE  /\ \E b \in 0..(MaxAlreadyAsked - 1) : Counted(a, b)
           /\ k \in DOMAIN a.map /\ a.map[k] = v
           /\ \A i \in DOMAIN a.map \ {k} : i \in DOMAIN m.map /\ a.map[i] = m.map[i]
<1> DEFINE f == m.map
           q == m.rmap
           max == MaxAlreadyAsked
           full == Cardinality(DOMAIN f) + 1 = max
<1>1. max \in Nat /\ max > 1 /\ n \in Nat
  BY NetworkAssumption
<1>2. Ordered(f, q, n) /\ DOMAIN f \subseteq Inv /\ f \in [DOMAIN f -> Nat] /\ Perm(q, n, DOMAIN f)
  BY DEF Counted, Ordered
<1>3. Cardinality(DOMAIN f) = n /\ Things!Cardinality(DOMAIN f) = n
  BY <1>1, <1>2, PermCounts, SameCardinality
<1>4. q \in Seq(DOMAIN f) /\ Len(q) = n
  BY <1>2 DEF Perm
<1> HIDE DEF f, q, max
<1>5. CASE n + 1 = max
  <2>1. n \in Nat \ {0}
    BY <1>1, <1>5
  <2>2. PICK g : g = Things!Without(f, q[1])
    OBVIOUS
  <2>3. PICK p : p = Tail(q)
    OBVIOUS
  <2>4. Shrunk(q, n, 1, p, DOMAIN f) /\ Head(q) = q[1]
    BY <1>4, <2>1, <2>3, TailTakesOut
  <2>5. Ordered(g, p, n - 1)
    BY <1>1, <1>2, <2>1, <2>2, <2>4, ShrunkOrdered
  <2>6. IsWithout(g, f, q[1])
    BY <1>2, <2>2, WithoutKeeps
  <2>7. PICK h : h = Things!With(g, k, v)
    OBVIOUS
  <2>8. PICK r : r = Things!Placed(g, p, k, v)
    OBVIOUS
  <2>9. k \notin DOMAIN g
    BY <2>6 DEF IsWithout, f
  <2>10. Ordered(h, r, n - 1 + 1)
    <3>1. n - 1 \in Nat
      BY <2>1
    <3> QED
      BY <2>5, <2>7, <2>8, <2>9, <3>1, PlacedOrdered
  <2>11. a = [map |-> h, rmap |-> r]
    <3>1. max # 0 /\ Things!Cardinality(DOMAIN m.map) + 1 = max
      BY <1>1, <1>3, <1>5 DEF f
    <3>2. ~Things!Count(m, k)
      BY DEF Things!Count
    <3> QED
      BY <2>2, <2>3, <2>4, <2>7, <2>8, <3>1, <3>2 DEF Things!MapInsert, f, q, max
  <2>12. IsWith(h, g, k, v)
    <3>1. g \in [DOMAIN g -> Nat]
      BY <2>6 DEF IsWithout
    <3> QED
      BY <2>7, <3>1, WithKeeps
  <2>13. Counted(a, n)
    <3>1. n - 1 + 1 = n
      BY <2>1
    <3>2. DOMAIN h \subseteq Inv
      BY <1>2, <2>6, <2>12 DEF IsWith, IsWithout
    <3> QED
      BY <2>10, <2>11, <3>1, <3>2 DEF Counted
  <2> QED
    BY <2>6, <2>11, <2>12, <2>13 DEF IsWith, IsWithout, f
<1>6. CASE n + 1 # max
  <2>1. PICK h : h = Things!With(f, k, v)
    OBVIOUS
  <2>2. PICK r : r = Things!Placed(f, q, k, v)
    OBVIOUS
  <2>3. k \notin DOMAIN f
    BY DEF f
  <2>4. Ordered(h, r, n + 1)
    BY <1>1, <1>2, <2>1, <2>2, <2>3, PlacedOrdered
  <2>5. a = [map |-> h, rmap |-> r]
    <3>1. ~(max # 0 /\ Things!Cardinality(DOMAIN m.map) + 1 = max)
      BY <1>1, <1>3, <1>6 DEF f
    <3>2. ~Things!Count(m, k)
      BY DEF Things!Count
    <3> QED
      BY <2>1, <2>2, <3>1, <3>2 DEF Things!MapInsert, f, q, max
  <2>6. IsWith(h, f, k, v)
    BY <1>2, <2>1, WithKeeps
  <2>7. Counted(a, n + 1) /\ n + 1 \in 0..(MaxAlreadyAsked - 1)
    <3>1. DOMAIN h \subseteq Inv
      BY <1>2, <2>6 DEF IsWith
    <3>2. n + 1 \in 0..(max - 1)
      BY <1>1, <1>6 DEF max
    <3> QED
      BY <2>4, <2>5, <3>1, <3>2 DEF Counted, max
  <2> QED
    BY <2>5, <2>6, <2>7 DEF IsWith, f
<1> QED
  BY <1>5, <1>6

LEMMA DroppedOrdered ==
    ASSUME NEW f, NEW q, NEW n \in Nat, Ordered(f, q, n), NEW k \in DOMAIN f
    PROVE  n \in Nat \ {0} /\ Ordered(Things!Without(f, k), Things!Dropped(q, k), n - 1)
<1>1. /\ Perm(q, n, DOMAIN f) /\ q \in Seq(DOMAIN f) /\ Len(q) = n /\ DOMAIN q = 1..n
      /\ \E i \in 1..n : q[i] = k
  BY DEF Ordered, Perm
<1>2. PICK j : j = CHOOSE i \in DOMAIN q : q[i] = k
  OBVIOUS
<1>3. j \in 1..n /\ q[j] = k
  BY <1>1, <1>2
<1>4. PICK r : r = Things!Dropped(q, k)
  OBVIOUS
<1>5. r = SubSeq(q, 1, j - 1) \o SubSeq(q, j + 1, Len(q))
  BY <1>2, <1>4, Zenon DEF Things!Dropped
<1>6. Shrunk(q, n, j, r, DOMAIN f)
  BY <1>1, <1>3, <1>5, TakeOut
<1>7. n \in Nat \ {0}
  BY <1>3
<1>8. Ordered(Things!Without(f, q[j]), r, n - 1)
  BY <1>3, <1>6, ShrunkOrdered
<1> QED
  BY <1>3, <1>4, <1>7, <1>8

LEMMA MapEraseKeeps ==
    ASSUME NEW m, NEW n \in 0..(MaxAlreadyAsked - 1), Counted(m, n), NEW k \in DOMAIN m.map,
           NEW a, a = Things!MapErase(m, k)
    PROVE  /\ \E b \in 0..(MaxAlreadyAsked - 1) : Counted(a, b)
           /\ DOMAIN a.map = DOMAIN m.map \ {k}
           /\ \A i \in DOMAIN a.map : a.map[i] = m.map[i]
<1>1. n \in Nat /\ Ordered(m.map, m.rmap, n) /\ DOMAIN m.map \subseteq Inv
  BY NetworkAssumption DEF Counted
<1>2. PICK g : g = Things!Without(m.map, k)
  OBVIOUS
<1>3. PICK r : r = Things!Dropped(m.rmap, k)
  OBVIOUS
<1>4. n \in Nat \ {0} /\ Ordered(g, r, n - 1)
  BY <1>1, <1>2, <1>3, DroppedOrdered
<1>5. a = [map |-> g, rmap |-> r]
  BY <1>2, <1>3 DEF Things!MapErase, Things!Count
<1>6. IsWithout(g, m.map, k)
  BY <1>1, <1>2, WithoutKeeps DEF Ordered
<1>7. Counted(a, n - 1)
  BY <1>1, <1>4, <1>5, <1>6 DEF Counted, IsWithout
<1>8. n - 1 \in 0..(MaxAlreadyAsked - 1)
  BY <1>4, NetworkAssumption
<1> QED
  BY <1>5, <1>6, <1>7, <1>8 DEF IsWithout

LEMMA MapUpdateKeeps ==
    ASSUME NEW m, NEW n \in 0..(MaxAlreadyAsked - 1), Counted(m, n), NEW k \in DOMAIN m.map,
           NEW v \in Nat, NEW a, a = Things!MapUpdate(m, k, v)
    PROVE  /\ Counted(a, n) /\ DOMAIN a.map = DOMAIN m.map /\ a.map[k] = v
           /\ \A i \in DOMAIN m.map \ {k} : a.map[i] = m.map[i]
<1>1. /\ n \in Nat /\ Ordered(m.map, m.rmap, n) /\ DOMAIN m.map \subseteq Inv
      /\ m.map \in [DOMAIN m.map -> Nat]
  <2>1. n \in Nat
    BY NetworkAssumption
  <2> QED
    BY <2>1 DEF Counted, Ordered
<1>2. PICK g : g = Things!Without(m.map, k)
  OBVIOUS
<1>3. PICK p : p = Things!Dropped(m.rmap, k)
  OBVIOUS
<1>4. n \in Nat \ {0} /\ Ordered(g, p, n - 1)
  BY <1>1, <1>2, <1>3, DroppedOrdered
<1>5. IsWithout(g, m.map, k)
  BY <1>1, <1>2, WithoutKeeps
<1>6. k \notin DOMAIN g /\ \A y \in DOMAIN g : m.map[y] = g[y]
  BY <1>5 DEF IsWithout
<1>7. PICK r : r = Things!Placed(m.map, p, k, v)
  OBVIOUS
<1>8. PICK h : h = Things!With(g, k, v)
  OBVIOUS
<1>9. Ordered(h, r, n)
  <2>1. n - 1 \in Nat /\ n - 1 + 1 = n
    BY <1>4
  <2>2. Ordered(h, r, n - 1 + 1)
    BY <1>4, <1>6, <1>7, <1>8, <2>1, PlacedOrdered
  <2> QED
    BY <2>1, <2>2
<1>10. PICK w : w = Things!With(m.map, k, v)
  OBVIOUS
<1>11. IsWith(w, m.map, k, v)
  BY <1>1, <1>10, WithKeeps
<1>12. IsWith(h, g, k, v)
  <2>1. g \in [DOMAIN g -> Nat]
    BY <1>5 DEF IsWithout
  <2> QED
    BY <1>8, <2>1, WithKeeps
<1>13. w = h
  <2>1. DOMAIN w = DOMAIN h /\ w \in [DOMAIN w -> Nat] /\ h \in [DOMAIN h -> Nat]
    BY <1>5, <1>11, <1>12 DEF IsWith, IsWithout
  <2>2. \A y \in DOMAIN w : w[y] = h[y]
    BY <1>5, <1>11, <1>12 DEF IsWith, IsWithout
  <2> QED
    BY <2>1, <2>2
<1>14. a = [map |-> h, rmap |-> r]
  BY <1>3, <1>7, <1>10, <1>13 DEF Things!MapUpdate, Things!Count
<1>15. Counted(a, n)
  BY <1>1, <1>9, <1>11, <1>13, <1>14 DEF Counted, IsWith
<1> QED
  BY <1>11, <1>13, <1>14, <1>15 DEF IsWith

-----------------------------------------------------------------------------
(* Asking *)

\* What was asked of a thing that is remembered is before its time in the map, and
\* nothing is known of what was asked of another.
AskInv ==
    /\ \E n \in 0..(MaxAlreadyAsked - 1) : Counted(mapAlreadyAskedFor, n)
    /\ nLastTime \in Nat /\ now \in Nat
    /\ asked \in [Inv -> SUBSET (Peers \X Nat)]
    /\ \A i \in Inv : asked[i] # {} => i \in DOMAIN mapAlreadyAskedFor.map
    /\ \A i \in DOMAIN mapAlreadyAskedFor.map :
         \A a \in asked[i] : a[2] <= mapAlreadyAskedFor.map[i]
    /\ Things!RequestsSpaced

LEMMA AskForStep ==
    ASSUME AskInv, NEW p \in Peers, NEW inv \in Inv, Things!AskFor(p, inv)
    PROVE  AskInv'
<1>1. PICK n \in 0..(MaxAlreadyAsked - 1) : Counted(mapAlreadyAskedFor, n)
  BY DEF AskInv
<1>2. PICK m : m = mapAlreadyAskedFor
  OBVIOUS
<1>3. /\ Counted(m, n) /\ DOMAIN m.map \subseteq Inv /\ m.map \in [DOMAIN m.map -> Nat]
  BY <1>1, <1>2 DEF Counted, Ordered
<1>4. /\ nLastTime \in Nat /\ now \in Nat /\ Retry \in Nat
      /\ asked \in [Inv -> SUBSET (Peers \X Nat)]
  BY NetworkAssumption DEF AskInv
<1>5. PICK nNow \in Nat : nNow = Things!Later(now - 1, nLastTime + 1)
  BY <1>4 DEF Things!Later
<1>6. PICK req \in Nat : req = IF inv \in DOMAIN m.map THEN m.map[inv] ELSE 0
  BY <1>3
<1>7. PICK time \in Nat : time = Things!Later(req + Retry, nNow)
  BY <1>4 DEF Things!Later
<1>8. time >= req + Retry
  BY <1>4, <1>7 DEF Things!Later
<1>9. time = Things!RequestTime(inv, nNow)
  BY <1>2, <1>6, <1>7 DEF Things!RequestTime, Things!Count
<1>10. PICK after : after = IF inv \in DOMAIN m.map THEN Things!MapUpdate(m, inv, time)
                            ELSE Things!MapInsert(m, inv, time, MaxAlreadyAsked)
  OBVIOUS
<1>11. PICK kept : kept = [i \in Inv |-> IF i \in DOMAIN after.map THEN asked[i] ELSE {}]
  OBVIOUS
<1>12. /\ nLastTime' = nNow /\ now' = now /\ mapAlreadyAskedFor' = after
       /\ asked' = [kept EXCEPT ![inv] = kept[inv] \cup {<<p, time>>}]
  BY <1>2, <1>5, <1>9, <1>10, <1>11 DEF Things!AskFor, Things!Count
<1>13. /\ \E b \in 0..(MaxAlreadyAsked - 1) : Counted(after, b)
       /\ inv \in DOMAIN after.map /\ after.map[inv] = time
       /\ \A i \in DOMAIN after.map \ {inv} : i \in DOMAIN m.map /\ after.map[i] = m.map[i]
  <2>1. CASE inv \in DOMAIN m.map
    BY <1>3, <1>10, <2>1, MapUpdateKeeps
  <2>2. CASE inv \notin DOMAIN m.map
    BY <1>3, <1>10, <2>2, MapInsertKeeps
  <2> QED
    BY <2>1, <2>2
<1>14. DOMAIN after.map \subseteq Inv
  BY <1>13 DEF Counted
<1>15. \A i \in Inv : asked'[i] = IF i = inv THEN asked[inv] \cup {<<p, time>>}
                                  ELSE IF i \in DOMAIN after.map THEN asked[i] ELSE {}
  BY <1>11, <1>12, <1>13
<1>16. asked' \in [Inv -> SUBSET (Peers \X Nat)]
  <2>1. \A i \in Inv : asked'[i] \in SUBSET (Peers \X Nat)
    BY <1>4, <1>15
  <2>2. asked' = [i \in Inv |-> asked'[i]]
    BY <1>11, <1>12
  <2> QED
    BY <2>1, <2>2
<1>17. \A a \in asked[inv] : a[2] \in Nat /\ a[2] <= req /\ a[2] <= time /\ time - a[2] >= Retry
  <2> TAKE a \in asked[inv]
  <2>1. a[2] \in Nat
    BY <1>4
  <2>2. inv \in DOMAIN m.map /\ a[2] <= m.map[inv]
    BY <1>2 DEF AskInv
  <2>3. a[2] <= req
    BY <1>6, <2>2
  <2> QED
    BY <1>4, <1>8, <2>1, <2>3
<1>18. \A i \in DOMAIN after.map : \A a \in asked'[i] : a[2] <= after.map[i]
  <2> SUFFICES ASSUME NEW i \in DOMAIN after.map, NEW a \in asked'[i] PROVE a[2] <= after.map[i]
    OBVIOUS
  <2>1. CASE i = inv
    <3>1. a \in asked[inv] \/ a = <<p, time>>
      BY <1>15, <2>1
    <3> QED
      BY <1>13, <1>17, <2>1, <3>1
  <2>2. CASE i # inv
    <3>1. a \in asked[i] /\ i \in DOMAIN m.map /\ after.map[i] = m.map[i]
      BY <1>13, <1>14, <1>15, <2>2
    <3> QED
      BY <1>2, <3>1 DEF AskInv
  <2> QED
    BY <2>1, <2>2
<1>19. Things!RequestsSpaced'
  <2> SUFFICES ASSUME NEW i \in Inv, NEW a \in asked'[i], NEW b \in asked'[i], a # b
               PROVE  a[2] - b[2] >= Retry \/ b[2] - a[2] >= Retry
    BY DEF Things!RequestsSpaced
  <2>1. a \in asked[i] /\ b \in asked[i] => a[2] - b[2] >= Retry \/ b[2] - a[2] >= Retry
    BY DEF AskInv, Things!RequestsSpaced
  <2>2. CASE i = inv
    <3>1. a \in asked[inv] \/ a = <<p, time>>
      BY <1>15, <2>2
    <3>2. b \in asked[inv] \/ b = <<p, time>>
      BY <1>15, <2>2
    <3>3. CASE a \in asked[inv] /\ b = <<p, time>>
      BY <1>17, <3>3
    <3>4. CASE b \in asked[inv] /\ a = <<p, time>>
      BY <1>17, <3>4
    <3> QED
      BY <2>1, <2>2, <3>1, <3>2, <3>3, <3>4
  <2>3. CASE i # inv
    BY <1>15, <2>1, <2>3
  <2> QED
    BY <2>2, <2>3
<1>20. \A i \in Inv : asked'[i] # {} => i \in DOMAIN after.map
  BY <1>13, <1>15
<1> QED
  BY <1>4, <1>12, <1>13, <1>16, <1>18, <1>19, <1>20 DEF AskInv

LEMMA AskingStep ==
    ASSUME AskInv, Things!Asking \/ Things!Tick
    PROVE  AskInv'
<1>1. CASE \E p \in Peers, inv \in Inv : Things!AskFor(p, inv)
  BY <1>1, AskForStep
<1>2. CASE \E p \in Peers : Things!SendDue(p)
  <2>1. UNCHANGED <<now, mapAlreadyAskedFor, nLastTime, asked>>
    BY <1>2 DEF Things!SendDue
  <2> QED
    BY <2>1 DEF AskInv, Counted, Things!RequestsSpaced
<1>3. CASE \E inv \in Inv : Things!Received(inv)
  <2>1. PICK inv \in Inv : Things!Received(inv)
    BY <1>3
  <2>2. PICK m : m = mapAlreadyAskedFor
    OBVIOUS
  <2>3. PICK n \in 0..(MaxAlreadyAsked - 1) : Counted(m, n)
    BY <2>2 DEF AskInv
  <2>4. inv \in DOMAIN m.map
    BY <2>1, <2>2 DEF Things!Received, Things!Count
  <2>5. PICK a : a = Things!MapErase(m, inv)
    OBVIOUS
  <2>6. /\ mapAlreadyAskedFor' = a /\ nLastTime' = nLastTime /\ now' = now
        /\ asked' = [asked EXCEPT ![inv] = {}]
    BY <2>1, <2>2, <2>5 DEF Things!Received
  <2>7. /\ \E b \in 0..(MaxAlreadyAsked - 1) : Counted(a, b)
        /\ DOMAIN a.map = DOMAIN m.map \ {inv}
        /\ \A i \in DOMAIN a.map : a.map[i] = m.map[i]
    BY <2>3, <2>4, <2>5, MapEraseKeeps
  <2>8. DOMAIN m.map \subseteq Inv
    BY <2>3 DEF Counted
  <2>9. /\ asked \in [Inv -> SUBSET (Peers \X Nat)] /\ nLastTime \in Nat /\ now \in Nat
        /\ \A i \in Inv : asked[i] # {} => i \in DOMAIN m.map
        /\ \A i \in DOMAIN m.map : \A c \in asked[i] : c[2] <= m.map[i]
        /\ Things!RequestsSpaced
    BY <2>2 DEF AskInv
  <2>10. \A i \in Inv : asked'[i] = IF i = inv THEN {} ELSE asked[i]
    BY <2>6, <2>9
  <2>11. asked' \in [Inv -> SUBSET (Peers \X Nat)]
    BY <2>6, <2>9
  <2>12. \A i \in Inv : asked'[i] # {} => i \in DOMAIN a.map
    BY <2>7, <2>9, <2>10
  <2>13. \A i \in DOMAIN a.map : \A c \in asked'[i] : c[2] <= a.map[i]
    BY <2>7, <2>8, <2>9, <2>10
  <2>14. Things!RequestsSpaced'
    BY <2>9, <2>10 DEF Things!RequestsSpaced
  <2> QED
    BY <2>6, <2>7, <2>9, <2>11, <2>12, <2>13, <2>14 DEF AskInv
<1>4. CASE Things!Tick
  <2>1. UNCHANGED <<mapAlreadyAskedFor, nLastTime, asked>> /\ now' \in Nat
    BY <1>4 DEF Things!Tick, Things!askVars, AskInv
  <2> QED
    BY <2>1 DEF AskInv, Counted, Things!RequestsSpaced
<1> QED
  BY <1>1, <1>2, <1>3, <1>4 DEF Things!Asking

-----------------------------------------------------------------------------
(* mruset *)

Known(s, n) == s.set \subseteq Inv /\ Perm(s.queue, n, s.set)

LEMMA PermAppends ==
    ASSUME NEW S, NEW q, NEW n \in Nat, Perm(q, n, S), NEW x, x \notin S
    PROVE  Perm(Append(q, x), n + 1, S \cup {x})
<1>1. PICK r : r = Append(q, x)
  OBVIOUS
<1>2. PICK T : T = S \cup {x}
  OBVIOUS
<1>3. q \in Seq(T) /\ x \in T /\ Len(q) = n
  BY <1>2 DEF Perm
<1>4. r \in Seq(T) /\ Len(r) = n + 1 /\ r[n + 1] = x /\ \A i \in 1..n : r[i] = q[i]
  BY <1>1, <1>3
<1>5. Grown(q, n, n, x, r, T)
  <2>1. \A i \in 1..(n + 1) : r[i] = IF i <= n THEN q[i] ELSE IF i = n + 1 THEN x ELSE q[i - 1]
    BY <1>4
  <2> QED
    BY <1>4, <2>1 DEF Grown
<1>6. n \in 0..n
  OBVIOUS
<1> QED
  BY <1>1, <1>2, <1>5, <1>6, PermGrows

LEMMA SetInsertKeeps ==
    ASSUME NEW s, NEW n \in 0..MaxKnown, Known(s, n), NEW x \in Inv,
           NEW t, t = Things!SetInsert(s, x, MaxKnown)
    PROVE  \E k \in 0..MaxKnown : Known(t, k)
<1>1. MaxKnown \in Nat \ {0} /\ n \in Nat
  BY NetworkAssumption
<1>2. s.set \subseteq Inv /\ Perm(s.queue, n, s.set) /\ s.queue \in Seq(s.set) /\ Len(s.queue) = n
  BY DEF Known, Perm
<1>3. CASE x \in s.set
  BY <1>3 DEF Things!SetInsert
<1>4. CASE x \notin s.set /\ n = MaxKnown
  <2>1. PICK p : p = Tail(s.queue)
    OBVIOUS
  <2>2. PICK h : h = s.queue[1]
    OBVIOUS
  <2>3. Shrunk(s.queue, n, 1, p, s.set) /\ Head(s.queue) = h /\ h \in s.set
    <3>1. n \in Nat \ {0}
      BY <1>1, <1>4
    <3> QED
      BY <1>2, <2>1, <2>2, <3>1, TailTakesOut
  <2>4. Perm(p, n - 1, s.set \ {h})
    <3>1. 1 \in 1..n
      BY <1>1, <1>4
    <3> QED
      BY <1>1, <1>2, <2>2, <2>3, <3>1, PermShrinks
  <2>5. Perm(Append(p, x), n - 1 + 1, (s.set \ {h}) \cup {x})
    <3>1. n - 1 \in Nat /\ x \notin s.set \ {h}
      BY <1>1, <1>4
    <3> QED
      BY <2>4, <3>1, PermAppends
  <2>6. t = [set |-> (s.set \cup {x}) \ {h}, queue |-> Append(p, x)]
    <3>1. MaxKnown # 0 /\ Len(s.queue) = MaxKnown
      BY <1>1, <1>2, <1>4
    <3> QED
      BY <1>4, <2>1, <2>3, <3>1 DEF Things!SetInsert
  <2>7. (s.set \cup {x}) \ {h} = (s.set \ {h}) \cup {x}
    BY <1>4, <2>3
  <2>8. n - 1 + 1 = n
    BY <1>1
  <2>9. Perm(t.queue, n, t.set) /\ t.set \subseteq Inv
    <3>1. t.queue = Append(p, x) /\ t.set = (s.set \ {h}) \cup {x}
      BY <2>6, <2>7
    <3> QED
      BY <1>2, <2>5, <2>8, <3>1
  <2> QED
    BY <2>9 DEF Known
<1>5. CASE x \notin s.set /\ n # MaxKnown
  <2>1. t = [set |-> s.set \cup {x}, queue |-> Append(s.queue, x)]
    BY <1>2, <1>5 DEF Things!SetInsert
  <2>2. Perm(Append(s.queue, x), n + 1, s.set \cup {x})
    BY <1>1, <1>2, <1>5, PermAppends
  <2>3. n + 1 \in 0..MaxKnown
    BY <1>1, <1>5
  <2>4. Perm(t.queue, n + 1, t.set) /\ t.set \subseteq Inv
    BY <1>2, <2>1, <2>2
  <2> QED
    BY <2>3, <2>4 DEF Known
<1> QED
  BY <1>3, <1>4, <1>5

-----------------------------------------------------------------------------
(* Loops *)

\* The i-th turn of one of the two loops: a mruset gets the i-th of a sequence, and
\* GetLocal looks at the i-th host.
Turn(loop, x, s, i) ==
    IF loop = "insert" THEN Things!SetInsert(s, x[i], MaxKnown)
    ELSE IF Loc!IsLocal(Order[i]) THEN Loc!Improved(s, Order[i], x) ELSE s

\* g[i] is what n turns that begin with z have after the first i.
Loop(loop, x, z, n, g) ==
    g = [i \in 0..n |-> IF i = 0 THEN z ELSE Turn(loop, x, g[i - 1], i)]

\* A loop, a recursive function, exists: by the least number of turns for which it would
\* not.
LEMMA LoopExists ==
    ASSUME NEW loop, NEW x, NEW z, NEW n \in Nat
    PROVE  \E g : Loop(loop, x, z, n, g)
<1> DEFINE S == {k \in Nat : \E g : Loop(loop, x, z, k, g)}
<1>1. 0 \in S
  <2> DEFINE g == [i \in 0..0 |-> z]
  <2>1. g = [i \in 0..0 |-> IF i = 0 THEN z ELSE Turn(loop, x, g[i - 1], i)]
    OBVIOUS
  <2>2. Loop(loop, x, z, 0, g)
    BY <2>1 DEF Loop
  <2> QED
    BY <2>2
<1>2. ASSUME NEW m \in 1..n, m - 1 \in S PROVE m \in S
  <2>1. PICK g : Loop(loop, x, z, m - 1, g)
    BY <1>2
  <2> DEFINE F(f, i) == Turn(loop, x, f, i)
             h == [i \in 0..m |-> IF i < m THEN g[i] ELSE F(g[m - 1], m)]
  <2> HIDE DEF F
  <2>2. g = [i \in 0..(m - 1) |-> IF i = 0 THEN z ELSE F(g[i - 1], i)]
    BY <2>1 DEF Loop, F
  <2>3. h = [i \in 0..m |-> IF i = 0 THEN z ELSE F(h[i - 1], i)]
    <3>1. \A i \in 0..m : h[i] = IF i = 0 THEN z ELSE F(h[i - 1], i)
      <4> TAKE i \in 0..m
      <4>1. CASE i < m
        BY <4>1, <2>2
      <4>2. CASE i = m
        BY <4>2, <2>2
      <4> QED
        BY <4>1, <4>2
    <3> QED
      BY <3>1
  <2> HIDE DEF h
  <2>4. Loop(loop, x, z, m, h)
    BY <2>3 DEF Loop, F
  <2>5. m \in Nat
    OBVIOUS
  <2> QED
    BY <2>4, <2>5
<1> HIDE DEF S
<1>3. \A i \in 0..n : i \in S
  BY <1>1, <1>2, Induct
<1>4. n \in S
  BY <1>3
<1> QED
  BY <1>4 DEF S

\* The turns one by one.
Turns(loop, x, z, n, g) ==
    g[0] = z /\ \A i \in 1..n : g[i] = Turn(loop, x, g[i - 1], i)

LEMMA LoopTurns ==
    ASSUME NEW loop, NEW x, NEW z, NEW n \in Nat, NEW g, Loop(loop, x, z, n, g)
    PROVE  Turns(loop, x, z, n, g)
<1> DEFINE F(f, i) == Turn(loop, x, f, i)
<1> HIDE DEF F
<1>1. g = [i \in 0..n |-> IF i = 0 THEN z ELSE F(g[i - 1], i)]
  BY DEF Loop, F
<1>2. g[0] = z /\ \A i \in 1..n : g[i] = F(g[i - 1], i)
  BY <1>1
<1> QED
  BY <1>2 DEF F, Turns

LEMMA SetInsertAllKeeps ==
    ASSUME NEW s, \E k \in 0..MaxKnown : Known(s, k), NEW q \in Seq(Inv),
           NEW t, t = Things!SetInsertAll(s, q, MaxKnown)
    PROVE  \E k \in 0..MaxKnown : Known(t, k)
<1>1. PICK n \in Nat : n = Len(q)
  OBVIOUS
<1>2. PICK f : f = CHOOSE g : Loop("insert", q, s, n, g)
  OBVIOUS
<1>3. Loop("insert", q, s, n, f)
  BY <1>2, LoopExists
<1>4. t = f[n]
  BY <1>1, <1>2 DEF Things!SetInsertAll, Loop, Turn
<1>5. f[0] = s /\ \A i \in 1..n : f[i] = Turn("insert", q, f[i - 1], i)
  BY <1>3, LoopTurns DEF Turns
<1> DEFINE Good == {i \in 0..n : \E k \in 0..MaxKnown : Known(f[i], k)}
<1>6. 0 \in Good
  BY <1>5
<1>7. ASSUME NEW i \in 1..n, i - 1 \in Good PROVE i \in Good
  <2>1. PICK k \in 0..MaxKnown : Known(f[i - 1], k)
    BY <1>7
  <2>2. f[i] = Things!SetInsert(f[i - 1], q[i], MaxKnown) /\ q[i] \in Inv
    BY <1>1, <1>5 DEF Turn
  <2>3. \E j \in 0..MaxKnown : Known(f[i], j)
    BY <2>1, <2>2, SetInsertKeeps
  <2>4. i \in 0..n
    OBVIOUS
  <2> QED
    BY <2>3, <2>4
<1> HIDE DEF Good
<1>8. n \in Good
  <2>1. \A i \in 0..n : i \in Good
    BY <1>6, <1>7, Induct
  <2> QED
    BY <2>1
<1> QED
  BY <1>4, <1>8 DEF Good

-----------------------------------------------------------------------------
(* Relaying *)

Relay == [time : Int, inv : Inv]
RelayInv ==
    /\ now \in Nat
    /\ vRelayExpiration \in Seq(Relay) /\ mapRelay \subseteq Inv /\ Things!RelayExpires
    /\ DOMAIN known = Peers /\ \A p \in Peers : \E n \in 0..MaxKnown : Known(known[p], n)
    /\ vInventoryToSend \in [Peers -> Seq(Inv)]

\* What has expired is the first part of vRelayExpiration, so that what is left of a
\* message has its entry left.
LEMMA RelayTransactionStep ==
    ASSUME RelayInv, NEW inv \in Inv, NEW relevant \in SUBSET Peers,
           Things!RelayTransaction(inv, relevant)
    PROVE  RelayInv'
<1>1. PICK v : v = vRelayExpiration
  OBVIOUS
<1>2. PICK n \in Nat : v \in Seq(Relay) /\ n = Len(v)
  BY <1>1 DEF RelayInv
<1>3. \A i \in 1..n : v[i] \in Relay /\ v[i].time \in Int /\ v[i].inv \in Inv
  <2>1. ASSUME NEW i \in 1..n PROVE v[i] \in Relay
    BY <1>2, ElementOfSeq
  <2>2. \A x \in Relay : x.time \in Int /\ x.inv \in Inv
    BY DEF Relay
  <2> QED
    BY <2>1, <2>2
<1>4. PICK S : S = Things!Expired
  OBVIOUS
<1>5. S = {i \in 1..n : \A j \in 1..i : v[j].time < now}
  BY <1>1, <1>2, <1>4 DEF Things!Expired
<1>6. PICK c \in 0..n : c = Cardinality(S) /\ S = 1..c
  <2>1. S \in SUBSET (1..n) /\ \A i \in S : \A j \in 1..i : j \in S
    BY <1>5
  <2> QED
    BY <2>1, Initial
<1>7. Things!Cardinality(Things!Expired) = c
  BY <1>4, <1>6, SameCardinality
<1>8. PICK left : left = SubSeq(v, c + 1, n)
  OBVIOUS
<1>9. left \in Seq(Relay) /\ Len(left) = n - c /\ \A i \in 1..(n - c) : left[i] = v[c + i]
  <2>1. c + 1 \in Int /\ \A i \in (c + 1)..n : v[i] \in Relay
    BY <1>3
  <2>2. /\ left \in Seq(Relay) /\ Len(left) = IF c + 1 <= n THEN n - (c + 1) + 1 ELSE 0
        /\ \A i \in 1..(n - (c + 1) + 1) : left[i] = v[(c + 1) + i - 1]
    BY <1>8, <2>1, SubSeqProperties
  <2> QED
    BY <2>2
<1>10. PICK entry : entry = [time |-> now + Lifetime, inv |-> inv]
  OBVIOUS
<1>11. entry \in Relay /\ entry.inv = inv
  BY <1>10, NetworkAssumption DEF RelayInv, Relay
<1>12. PICK w : w = Append(left, entry)
  OBVIOUS
<1>13. /\ w \in Seq(Relay) /\ Len(w) = n - c + 1 /\ w[n - c + 1] = entry
       /\ \A i \in 1..(n - c) : w[i] = v[c + i]
  BY <1>9, <1>11, <1>12
<1>14. vRelayExpiration' = w
  BY <1>1, <1>2, <1>7, <1>8, <1>10, <1>12 DEF Things!RelayTransaction, Things!Recorded
<1>15. mapRelay' = (mapRelay \ {v[i].inv : i \in S}) \cup {inv}
  BY <1>1, <1>4 DEF Things!RelayTransaction
<1>16. \A x \in mapRelay' : \E i \in DOMAIN w : w[i].inv = x
  <2> SUFFICES ASSUME NEW x \in mapRelay' PROVE \E i \in 1..(n - c + 1) : w[i].inv = x
    BY <1>13
  <2>1. CASE x = inv
    <3>1. n - c + 1 \in 1..(n - c + 1)
      OBVIOUS
    <3> QED
      BY <1>11, <1>13, <2>1, <3>1
  <2>2. CASE x \in mapRelay /\ x \notin {v[i].inv : i \in S}
    <3>1. PICK i \in 1..n : v[i].inv = x
      BY <1>1, <1>2, <2>2 DEF RelayInv, Things!RelayExpires
    <3>2. i \notin S
      BY <2>2, <3>1
    <3>3. i \notin 1..c
      BY <1>6, <3>2
    <3>4. PICK j \in 1..(n - c) : j = i - c /\ c + j = i
      BY <3>3
    <3>5. w[j].inv = x /\ j \in 1..(n - c + 1)
      BY <1>13, <3>1, <3>4
    <3> QED
      BY <3>5
  <2> QED
    BY <1>15, <2>1, <2>2
<1>17. vInventoryToSend' \in [Peers -> Seq(Inv)]
  <2>1. vInventoryToSend' = [p \in Peers |-> IF p \in relevant
                              THEN Things!Pushed(p, inv, vInventoryToSend[p])
                              ELSE vInventoryToSend[p]]
    BY DEF Things!RelayTransaction
  <2>2. \A p \in Peers : vInventoryToSend[p] \in Seq(Inv)
    BY DEF RelayInv
  <2>3. \A p \in Peers : Things!Pushed(p, inv, vInventoryToSend[p]) \in Seq(Inv)
    BY <2>2 DEF Things!Pushed
  <2> QED
    BY <2>1, <2>2, <2>3
<1>18. now' = now /\ known' = known
  BY DEF Things!RelayTransaction
<1>19. Things!RelayExpires'
  BY <1>14, <1>16 DEF Things!RelayExpires
<1> QED
  BY <1>13, <1>14, <1>15, <1>17, <1>18, <1>19 DEF RelayInv

LEMMA RelayingStep ==
    ASSUME RelayInv, Things!Relaying \/ Things!Tick
    PROVE  RelayInv'
<1>1. DOMAIN known = Peers /\ \A p \in Peers : \E n \in 0..MaxKnown : Known(known[p], n)
  BY DEF RelayInv
<1>2. vInventoryToSend \in [Peers -> Seq(Inv)]
  BY DEF RelayInv
<1>3. CASE \E inv \in Inv, relevant \in SUBSET Peers : Things!RelayTransaction(inv, relevant)
  BY <1>3, RelayTransactionStep
<1>4. CASE \E p \in Peers, inv \in Inv : Things!AddInventoryKnown(p, inv)
  <2>1. PICK p \in Peers, inv \in Inv : Things!AddInventoryKnown(p, inv)
    BY <1>4
  <2>2. UNCHANGED <<now, mapRelay, vRelayExpiration, vInventoryToSend>>
    BY <2>1 DEF Things!AddInventoryKnown
  <2>3. PICK t : t = Things!SetInsert(known[p], inv, MaxKnown)
    OBVIOUS
  <2>4. \E n \in 0..MaxKnown : Known(t, n)
    BY <1>1, <2>3, SetInsertKeeps
  <2>5. known' = [known EXCEPT ![p] = t]
    BY <2>1, <2>3 DEF Things!AddInventoryKnown
  <2>6. DOMAIN known' = Peers /\ \A r \in Peers : known'[r] = IF r = p THEN t ELSE known[r]
    BY <1>1, <2>5
  <2>7. \A r \in Peers : \E n \in 0..MaxKnown : Known(known'[r], n)
    BY <1>1, <2>4, <2>6
  <2> QED
    BY <2>2, <2>6, <2>7 DEF RelayInv, Things!RelayExpires
<1>5. CASE \E p \in Peers : Things!SendInventory(p)
  <2>1. PICK p \in Peers : Things!SendInventory(p)
    BY <1>5
  <2>2. UNCHANGED <<now, mapRelay, vRelayExpiration>>
    BY <2>1 DEF Things!SendInventory
  <2>3. PICK t : t = Things!SetInsertAll(known[p], vInventoryToSend[p], MaxKnown)
    OBVIOUS
  <2>4. \E n \in 0..MaxKnown : Known(t, n)
    <3>1. vInventoryToSend[p] \in Seq(Inv)
      BY <1>2
    <3> QED
      BY <1>1, <2>3, <3>1, SetInsertAllKeeps
  <2>5. known' = [known EXCEPT ![p] = t]
    BY <2>1, <2>3 DEF Things!SendInventory
  <2>6. DOMAIN known' = Peers /\ \A r \in Peers : known'[r] = IF r = p THEN t ELSE known[r]
    BY <1>1, <2>5
  <2>7. \A r \in Peers : \E n \in 0..MaxKnown : Known(known'[r], n)
    BY <1>1, <2>4, <2>6
  <2>8. vInventoryToSend' \in [Peers -> Seq(Inv)]
    BY <1>2, <2>1 DEF Things!SendInventory
  <2> QED
    BY <2>2, <2>6, <2>7, <2>8 DEF RelayInv, Things!RelayExpires
<1>6. CASE Things!Tick
  <2>1. UNCHANGED <<mapRelay, vRelayExpiration, known, vInventoryToSend>> /\ now' \in Nat
    BY <1>6 DEF Things!Tick, Things!relayVars, RelayInv
  <2> QED
    BY <2>1 DEF RelayInv, Things!RelayExpires
<1> QED
  BY <1>3, <1>4, <1>5, <1>6 DEF Things!Relaying

-----------------------------------------------------------------------------
(* The two together *)

\* Nothing is named by an empty sequence.
LEMMA NothingNamed == Perm(<< >>, 0, {})
  BY DEF Perm

LEMMA ThingsInit == Things!Init => AskInv /\ RelayInv
<1> SUFFICES ASSUME Things!Init PROVE AskInv /\ RelayInv
  OBVIOUS
<1>1. MaxAlreadyAsked - 1 \in Nat /\ MaxKnown \in Nat
  BY NetworkAssumption
<1>2. Counted(Things!EmptyMap, 0) /\ Known(Things!EmptySet, 0)
  <2>1. \A f : f = << >> => DOMAIN f = {} /\ f \in [DOMAIN f -> Nat]
    OBVIOUS
  <2> QED
    BY <2>1, NothingNamed DEF Counted, Ordered, Known, Things!EmptyMap, Things!EmptySet
<1>3. 0 \in 0..(MaxAlreadyAsked - 1) /\ 0 \in 0..MaxKnown
  BY <1>1
<1>4. DOMAIN Things!EmptyMap.map = {}
  BY DEF Things!EmptyMap
<1>5. AskInv
  <2>1. Counted(mapAlreadyAskedFor, 0) /\ DOMAIN mapAlreadyAskedFor.map = {}
    BY <1>2, <1>4 DEF Things!Init
  <2>2. nLastTime = 0 /\ now = 1 /\ asked = [i \in Inv |-> {}]
    BY DEF Things!Init
  <2>3. Things!RequestsSpaced
    BY <2>2 DEF Things!RequestsSpaced
  <2> QED
    BY <1>3, <2>1, <2>2, <2>3 DEF AskInv
<1>6. RelayInv
  <2>1. /\ now = 1 /\ mapRelay = {} /\ vRelayExpiration = << >>
        /\ vInventoryToSend = [p \in Peers |-> << >>]
    BY DEF Things!Init
  <2>2. DOMAIN known = Peers /\ \A p \in Peers : Known(known[p], 0)
    BY <1>2 DEF Things!Init
  <2>3. Things!RelayExpires
    BY <2>1 DEF Things!RelayExpires
  <2>4. vInventoryToSend \in [Peers -> Seq(Inv)]
    BY <2>1
  <2> QED
    BY <1>3, <2>1, <2>2, <2>3, <2>4 DEF RelayInv
<1> QED
  BY <1>5, <1>6

\* What one of them does, the other does not see; the clock they share.
LEMMA AskingRelays ==
    ASSUME AskInv, RelayInv, Things!Asking \/ Things!Tick PROVE AskInv' /\ RelayInv'
<1>1. AskInv'
  BY AskingStep
<1>2. UNCHANGED <<mapRelay, vRelayExpiration, known, vInventoryToSend>>
  BY DEF Things!Asking, Things!Tick, Things!AskFor, Things!SendDue, Things!Received,
         Things!relayVars
<1>3. now' \in Nat
  BY <1>1 DEF AskInv
<1> QED
  BY <1>1, <1>2, <1>3 DEF RelayInv, Things!RelayExpires

LEMMA RelayingAsks ==
    ASSUME AskInv, RelayInv, Things!Relaying \/ Things!Tick PROVE AskInv' /\ RelayInv'
<1>1. RelayInv'
  BY RelayingStep
<1>2. UNCHANGED <<mapAlreadyAskedFor, nLastTime, asked>>
  BY DEF Things!Relaying, Things!Tick, Things!RelayTransaction, Things!AddInventoryKnown,
         Things!SendInventory, Things!askVars
<1>3. now' \in Nat
  BY <1>1 DEF RelayInv
<1> QED
  BY <1>1, <1>2, <1>3 DEF AskInv, Counted, Things!RequestsSpaced

LEMMA PermAgrees ==
    ASSUME NEW S, NEW q, NEW n \in Nat, Perm(q, n, S)
    PROVE  Things!IsPermutation(q, S) /\ DOMAIN q = 1..n /\ Len(q) = n
<1>1. Cardinality(S) = n
  BY PermCounts
<1>2. q \in Seq(S) /\ Len(q) = n
  BY DEF Perm
<1>3. DOMAIN q = 1..n /\ \A i \in 1..n : q[i] \in S
  BY <1>2
<1>4. Range(q) = S
  <2>1. \A x \in S : \E i \in 1..n : q[i] = x
    BY DEF Perm
  <2> QED
    BY <1>3, <2>1 DEF Range
<1> QED
  BY <1>1, <1>2, <1>3, <1>4, SameCardinality, SameRange DEF Things!IsPermutation

LEMMA ThingsKept ==
    AskInv /\ RelayInv =>
        Things!RequestsSpaced /\ Things!ContainersAgree /\ Things!RelayExpires
<1> SUFFICES ASSUME AskInv, RelayInv
             PROVE  Things!RequestsSpaced /\ Things!ContainersAgree /\ Things!RelayExpires
  OBVIOUS
<1>1. PICK n \in 0..(MaxAlreadyAsked - 1) : Counted(mapAlreadyAskedFor, n)
  BY DEF AskInv
<1>2. PICK m : m = mapAlreadyAskedFor
  OBVIOUS
<1>3. n \in Nat /\ n < MaxAlreadyAsked
  BY NetworkAssumption
<1>4. /\ Things!IsPermutation(m.rmap, DOMAIN m.map) /\ DOMAIN m.rmap = 1..n
      /\ Len(m.rmap) = n /\ \A i, j \in 1..n : i < j => m.map[m.rmap[i]] <= m.map[m.rmap[j]]
  BY <1>1, <1>2, <1>3, PermAgrees DEF Counted, Ordered
<1>5. ASSUME NEW p \in Peers
      PROVE  Things!IsPermutation(known[p].queue, known[p].set) /\ Len(known[p].queue) <= MaxKnown
  <2>1. PICK k \in 0..MaxKnown : Known(known[p], k)
    BY DEF RelayInv
  <2>2. k \in Nat /\ k <= MaxKnown
    BY NetworkAssumption
  <2> QED
    BY <2>1, <2>2, PermAgrees DEF Known
<1>6. Things!ContainersAgree
  BY <1>2, <1>3, <1>4, <1>5 DEF Things!ContainersAgree
<1> QED
  BY <1>6 DEF AskInv, RelayInv

ThingsInv == part \in {"ask", "relay"} => AskInv /\ RelayInv

\* Requests for a thing are two minutes apart whoever they go to, limitedmap and mruset
\* keep their halves equal and within their limits, and what is relayed expires
\* (CNode::AskFor, limitedmap, mruset, RelayTransaction).
THEOREM InventoryIsKept == PartsSpec => []InventoryKept
<1>1. PartsInit => ThingsInv
  BY ThingsInit DEF PartsInit, ThingsInv
<1>2. ThingsInv /\ [PartsNext]_partsVars => ThingsInv'
  <2> SUFFICES ASSUME ThingsInv, [PartsNext]_partsVars PROVE ThingsInv'
    OBVIOUS
  <2>1. part' = part
    BY PartKept
  <2>2. CASE part = "ask"
    <3>1. CASE AskNext
      BY <2>1, <2>2, <3>1, AskingRelays DEF AskNext, ThingsInv
    <3>2. CASE UNCHANGED partsVars
      <4>1. UNCHANGED <<now, things>>
        BY <3>2 DEF partsVars
      <4> QED
        BY <2>1, <2>2, <4>1 DEF ThingsInv, AskInv, RelayInv, Counted, Things!RequestsSpaced,
                                Things!RelayExpires, things
    <3> QED
      BY <2>2, <3>1, <3>2 DEF PartsNext, RelayNext, LocalNext, BanNext, FileNext,
                             AlertNext
  <2>3. CASE part = "relay"
    <3>1. CASE RelayNext
      BY <2>1, <2>3, <3>1, RelayingAsks DEF RelayNext, ThingsInv
    <3>2. CASE UNCHANGED partsVars
      <4>1. UNCHANGED <<now, things>>
        BY <3>2 DEF partsVars
      <4> QED
        BY <2>1, <2>3, <4>1 DEF ThingsInv, AskInv, RelayInv, Counted, Things!RequestsSpaced,
                                Things!RelayExpires, things
    <3> QED
      BY <2>3, <3>1, <3>2 DEF PartsNext, AskNext, LocalNext, BanNext, FileNext,
                             AlertNext
  <2>4. CASE part \notin {"ask", "relay"}
    BY <2>1, <2>4 DEF ThingsInv
  <2> QED
    BY <2>2, <2>3, <2>4
<1>3. ThingsInv => InventoryKept
  BY ThingsKept DEF ThingsInv, InventoryKept
<1> QED
  BY <1>1, <1>2, <1>3, PTL DEF PartsSpec

-----------------------------------------------------------------------------
(* Our own addresses, and bans *)

Address == [nScore : 0..MaxScore, nPort : HostPorts]
ToBeTold(to) ==
    /\ to \in Seq(Loc!Services) /\ Len(to) <= MAX_ADDR_TO_SEND
    /\ \A i \in 1..Len(to) : HostIsRoutable[to[i].host]
LocalInv ==
    /\ DOMAIN mapLocalHost \subseteq Loc!Hosts
    /\ \A h \in DOMAIN mapLocalHost : mapLocalHost[h] \in Address
    /\ vfReachable \in [Loc!Networks -> BOOLEAN] /\ vfLimited \in [Loc!Networks -> BOOLEAN]
    /\ setBanned \in [Visitors -> 0..MaxTime + BanTime]
    /\ whose \in [Visitors -> Loc!Services \cup {Loc!Nowhere}]
    /\ DOMAIN vAddrToSend = Visitors /\ \A p \in Visitors : ToBeTold(vAddrToSend[p])
    /\ setAddrKnown \in [Visitors -> SUBSET Loc!Services]

\* No local address is forgotten or loses score.
ScoresKept ==
    \A h \in DOMAIN mapLocalHost :
        h \in DOMAIN mapLocalHost' /\ mapLocalHost'[h].nScore >= mapLocalHost[h].nScore

\* An order of the hosts names each.
LEMMA HostsOrdered ==
    ASSUME NEW n \in Nat, n = Len(Order)
    PROVE  Loc!Hosts = {Order[i] : i \in 1..n}
<1>1. Order \in Seq(Range(Order))
  BY NetworkAssumption
<1>2. DOMAIN Order = 1..n
  BY <1>1
<1> QED
  BY <1>2 DEF Loc!Hosts, Loc!Range

\* The best of the first i hosts, b, if any of them is local.
BestOf(b, p, i) ==
    \/ /\ b.score = -1 /\ b.reach = -1
       /\ \A j \in 1..i : Order[j] \notin DOMAIN mapLocalHost
    \/ /\ b.host \in DOMAIN mapLocalHost
       /\ b.reach = Reachability[b.host][p] /\ b.score = mapLocalHost[b.host].nScore
       /\ \A j \in 1..i : Order[j] \in DOMAIN mapLocalHost =>
            \/ Reachability[Order[j]][p] < b.reach
            \/ /\ Reachability[Order[j]][p] = b.reach
               /\ mapLocalHost[Order[j]].nScore <= b.score

LEMMA BestImproved ==
    ASSUME LocalInv, NEW p \in Visitors, NEW n \in Nat, n = Len(Order), NEW i \in 1..n,
           NEW b, BestOf(b, p, i - 1), NEW c, c = Turn("local", p, b, i)
    PROVE  BestOf(c, p, i)
<1>1. PICK h : h = Order[i]
  OBVIOUS
<1>2. \A x \in Loc!Hosts : Reachability[x][p] \in Nat
  BY NetworkAssumption DEF Loc!Hosts, Loc!Range, Range
<1>3. \A x \in DOMAIN mapLocalHost : x \in Loc!Hosts /\ mapLocalHost[x].nScore \in Nat
  BY NetworkAssumption DEF LocalInv, Address
<1>4. \A j \in 1..i : j \in 1..(i - 1) \/ Order[j] = h
  BY <1>1
<1>5. c = IF h \in DOMAIN mapLocalHost THEN Loc!Improved(b, h, p) ELSE b
  BY <1>1 DEF Turn, Loc!IsLocal
<1>6. CASE h \notin DOMAIN mapLocalHost
  BY <1>4, <1>5, <1>6 DEF BestOf
<1>7. CASE h \in DOMAIN mapLocalHost
  <2>1. PICK r \in Nat : r = Reachability[h][p]
    BY <1>2, <1>3, <1>7
  <2>2. PICK s \in Nat : s = mapLocalHost[h].nScore
    BY <1>3, <1>7
  <2>3. c = IF r > b.reach \/ (r = b.reach /\ s > b.score)
            THEN [host |-> h, reach |-> r, score |-> s] ELSE b
    <3>1. c = Loc!Improved(b, h, p)
      BY <1>5, <1>7
    <3>2. Loc!Improved(b, h, p) =
            IF r > b.reach \/ (r = b.reach /\ s > b.score)
            THEN [host |-> h, reach |-> r, score |-> s] ELSE b
      BY <2>1, <2>2, Zenon DEF Loc!Improved
    <3> QED
      BY <3>1, <3>2, Zenon
  <2>4. CASE /\ b.score = -1 /\ b.reach = -1
             /\ \A j \in 1..(i - 1) : Order[j] \notin DOMAIN mapLocalHost
    <3>1. c.host = h /\ c.reach = r /\ c.score = s
      BY <2>3, <2>4
    <3>2. \A j \in 1..i : Order[j] \in DOMAIN mapLocalHost => Order[j] = h
      BY <1>4, <2>4
    <3> QED
      BY <1>7, <2>1, <2>2, <3>1, <3>2 DEF BestOf
  <2>5. CASE /\ b.host \in DOMAIN mapLocalHost
             /\ b.reach = Reachability[b.host][p] /\ b.score = mapLocalHost[b.host].nScore
             /\ \A j \in 1..(i - 1) : Order[j] \in DOMAIN mapLocalHost =>
                  \/ Reachability[Order[j]][p] < b.reach
                  \/ /\ Reachability[Order[j]][p] = b.reach
                     /\ mapLocalHost[Order[j]].nScore <= b.score
    <3>1. b.reach \in Nat /\ b.score \in Nat
      BY <1>2, <1>3, <2>5
    <3>2. \A j \in 1..i : Order[j] \in DOMAIN mapLocalHost =>
            Reachability[Order[j]][p] \in Nat /\ mapLocalHost[Order[j]].nScore \in Nat
      BY <1>2, <1>3
    <3>3. CASE r > b.reach \/ (r = b.reach /\ s > b.score)
      <4>1. c.host = h /\ c.reach = r /\ c.score = s
        BY <2>3, <3>3
      <4>2. ASSUME NEW j \in 1..i, Order[j] \in DOMAIN mapLocalHost
            PROVE  \/ Reachability[Order[j]][p] < r
                   \/ Reachability[Order[j]][p] = r /\ mapLocalHost[Order[j]].nScore <= s
        <5>1. CASE Order[j] = h
          BY <2>1, <2>2, <5>1
        <5>2. CASE j \in 1..(i - 1)
          BY <2>5, <3>1, <3>2, <3>3, <4>2, <5>2
        <5> QED
          BY <1>4, <5>1, <5>2
      <4> QED
        BY <1>7, <2>1, <2>2, <4>1, <4>2 DEF BestOf
    <3>4. CASE ~(r > b.reach \/ (r = b.reach /\ s > b.score))
      <4>1. c = b
        BY <2>3, <3>4
      <4>2. r < b.reach \/ (r = b.reach /\ s <= b.score)
        <5>1. PICK br \in Nat, bs \in Nat : br = b.reach /\ bs = b.score
          BY <3>1
        <5>2. ~(r > br \/ (r = br /\ s > bs))
          BY <3>4, <5>1, Zenon
        <5>3. r < br \/ (r = br /\ s <= bs)
          BY <5>2
        <5> QED
          BY <5>1, <5>3, Zenon
      <4>3. ASSUME NEW j \in 1..i, Order[j] \in DOMAIN mapLocalHost
            PROVE  \/ Reachability[Order[j]][p] < b.reach
                   \/ /\ Reachability[Order[j]][p] = b.reach
                      /\ mapLocalHost[Order[j]].nScore <= b.score
        BY <1>4, <2>1, <2>2, <2>5, <4>2, <4>3
      <4> QED
        BY <2>5, <4>1, <4>3 DEF BestOf
    <3> QED
      BY <3>3, <3>4
  <2> QED
    BY <2>4, <2>5 DEF BestOf
<1> QED
  BY <1>6, <1>7

LEMMA BestFound ==
    ASSUME LocalInv, NEW p \in Visitors, NEW n \in Nat, n = Len(Order)
    PROVE  \E b : /\ BestOf(b, p, n)
                  /\ Loc!GetLocal(p) = IF b.score < 0 THEN Loc!Nowhere
                                       ELSE [host |-> b.host, port |-> mapLocalHost[b.host].nPort]
<1>1. PICK z : z = [host |-> Loc!Nowhere.host, reach |-> -1, score |-> -1]
  OBVIOUS
<1>2. PICK f : f = CHOOSE g : Loop("local", p, z, n, g)
  OBVIOUS
<1>3. Loop("local", p, z, n, f)
  BY <1>2, LoopExists
<1>4. Loc!GetLocal(p) = IF f[n].score < 0 THEN Loc!Nowhere
                        ELSE [host |-> f[n].host, port |-> mapLocalHost[f[n].host].nPort]
  BY <1>1, <1>2 DEF Loc!GetLocal, Loop, Turn
<1>5. f[0] = z /\ \A i \in 1..n : f[i] = Turn("local", p, f[i - 1], i)
  <2>1. Turns("local", p, z, n, f)
    BY <1>3, LoopTurns
  <2> QED
    BY <2>1 DEF Turns
<1> DEFINE Good == {i \in 0..n : BestOf(f[i], p, i)}
<1>6. 0 \in Good
  <2>1. f[0].score = -1 /\ f[0].reach = -1
    BY <1>1, <1>5
  <2>2. \A j \in 1..0 : Order[j] \notin DOMAIN mapLocalHost
    OBVIOUS
  <2>3. BestOf(f[0], p, 0)
    BY <2>1, <2>2 DEF BestOf
  <2> QED
    BY <2>3
<1>7. ASSUME NEW i \in 1..n, i - 1 \in Good PROVE i \in Good
  <2>1. BestOf(f[i], p, i)
    BY <1>5, <1>7, BestImproved
  <2> QED
    BY <2>1
<1> HIDE DEF Good
<1>8. n \in Good
  <2>1. \A i \in 0..n : i \in Good
    BY <1>6, <1>7, Induct
  <2> QED
    BY <2>1
<1> QED
  BY <1>4, <1>8 DEF Good

LEMMA FoundIsBest == LocalInv => Loc!LocalIsBest
<1> SUFFICES ASSUME LocalInv, NEW p \in Visitors, NEW h \in DOMAIN mapLocalHost,
                    NEW best, best = Loc!GetLocal(p).host
             PROVE  /\ best \in DOMAIN mapLocalHost
                    /\ Reachability[h][p] <= Reachability[best][p]
                    /\ Reachability[h][p] = Reachability[best][p] =>
                         mapLocalHost[h].nScore <= mapLocalHost[best].nScore
  BY DEF Loc!LocalIsBest
<1>1. PICK n \in Nat : n = Len(Order)
  BY NetworkAssumption
<1>2. PICK b : /\ BestOf(b, p, n)
               /\ Loc!GetLocal(p) = IF b.score < 0 THEN Loc!Nowhere
                                    ELSE [host |-> b.host, port |-> mapLocalHost[b.host].nPort]
  BY <1>1, BestFound
<1>3. PICK i \in 1..n : Order[i] = h
  BY <1>1, HostsOrdered DEF LocalInv
<1>4. /\ b.host \in DOMAIN mapLocalHost
      /\ b.reach = Reachability[b.host][p] /\ b.score = mapLocalHost[b.host].nScore
      /\ \/ Reachability[h][p] < b.reach
         \/ Reachability[h][p] = b.reach /\ mapLocalHost[h].nScore <= b.score
  <2>1. Order[i] \in DOMAIN mapLocalHost
    BY <1>3
  <2>2. ~\A j \in 1..n : Order[j] \notin DOMAIN mapLocalHost
    BY <2>1
  <2>3. /\ b.host \in DOMAIN mapLocalHost
        /\ b.reach = Reachability[b.host][p] /\ b.score = mapLocalHost[b.host].nScore
        /\ \A j \in 1..n : Order[j] \in DOMAIN mapLocalHost =>
             \/ Reachability[Order[j]][p] < b.reach
             \/ /\ Reachability[Order[j]][p] = b.reach
                /\ mapLocalHost[Order[j]].nScore <= b.score
    BY <1>2, <2>2, Zenon DEF BestOf
  <2>4. \/ Reachability[Order[i]][p] < b.reach
        \/ /\ Reachability[Order[i]][p] = b.reach
           /\ mapLocalHost[Order[i]].nScore <= b.score
    BY <2>1, <2>3, Zenon
  <2>5. \/ Reachability[h][p] < b.reach
        \/ Reachability[h][p] = b.reach /\ mapLocalHost[h].nScore <= b.score
    BY <1>3, <2>4, Zenon
  <2> QED
    BY <2>3, <2>5, Zenon
<1>5. b.score \in Nat
  BY <1>4, NetworkAssumption DEF LocalInv, Address
<1>6. best = b.host
  BY <1>2, <1>5
<1>7. Reachability[h][p] \in Nat /\ Reachability[best][p] \in Nat
  BY <1>4, <1>6, NetworkAssumption DEF LocalInv, Loc!Hosts, Loc!Range, Range
<1> QED
  BY <1>4, <1>6, <1>7

\* GetLocal finds an address of ours, or none.
LEMMA LocalFound ==
    ASSUME LocalInv, NEW p \in Visitors
    PROVE  Loc!GetLocal(p) \in Loc!Services \cup {Loc!Nowhere}
<1>1. PICK n \in Nat : n = Len(Order)
  BY NetworkAssumption
<1>2. PICK b : /\ BestOf(b, p, n)
               /\ Loc!GetLocal(p) = IF b.score < 0 THEN Loc!Nowhere
                                    ELSE [host |-> b.host, port |-> mapLocalHost[b.host].nPort]
  BY <1>1, BestFound
<1>3. CASE b.score = -1
  BY <1>2, <1>3
<1>4. CASE b.host \in DOMAIN mapLocalHost /\ b.score = mapLocalHost[b.host].nScore
  <2>1. b.host \in Loc!Hosts /\ mapLocalHost[b.host] \in Address
    BY <1>4 DEF LocalInv
  <2>2. mapLocalHost[b.host].nPort \in HostPorts /\ b.score \in Nat
    BY <1>4, <2>1, NetworkAssumption DEF Address
  <2> QED
    BY <1>2, <2>1, <2>2 DEF Loc!Services
<1> QED
  BY <1>2, <1>3, <1>4, Zenon DEF BestOf

LEMMA AddLocalStep ==
    ASSUME LocalInv, NEW s \in Loc!Services, NEW nScore \in 0..4, Loc!AddLocal(s, nScore)
    PROVE  LocalInv' /\ ScoresKept
<1>1. PICK x \in Loc!Hosts : x = s.host
  BY DEF Loc!Services
<1>2. s.port \in HostPorts
  BY DEF Loc!Services
<1>3. \A h \in DOMAIN mapLocalHost : /\ h \in Loc!Hosts /\ mapLocalHost[h] \in Address
                                     /\ mapLocalHost[h].nScore \in Nat
                                     /\ mapLocalHost[h].nPort \in HostPorts
  BY NetworkAssumption DEF LocalInv, Address
<1>4. PICK score : score = Loc!Scored(x, nScore)
  OBVIOUS
<1>5. PICK port : port = Loc!PortOf(s, nScore)
  OBVIOUS
<1>6. score \in Nat /\ (x \in DOMAIN mapLocalHost => score >= mapLocalHost[x].nScore)
  <2>1. CASE x \notin DOMAIN mapLocalHost
    BY <1>4, <2>1 DEF Loc!Scored, Loc!IsLocal
  <2>2. CASE x \in DOMAIN mapLocalHost
    <3>1. PICK old \in Nat : old = mapLocalHost[x].nScore
      BY <1>3, <2>2
    <3>2. score = IF nScore >= old THEN nScore + 1 ELSE old
      BY <1>4, <2>2, <3>1 DEF Loc!Scored, Loc!IsLocal
    <3> QED
      BY <3>1, <3>2
  <2> QED
    BY <2>1, <2>2
<1>7. port \in HostPorts
  BY <1>1, <1>2, <1>3, <1>5 DEF Loc!PortOf, Loc!IsLocal
<1>8. score <= MaxScore
  BY <1>1, <1>4 DEF Loc!AddLocal
<1>9. mapLocalHost' = [h \in DOMAIN mapLocalHost \cup {x} |->
                         IF h = x THEN [nScore |-> score, nPort |-> port] ELSE mapLocalHost[h]]
  <2>1. mapLocalHost' = [h \in DOMAIN mapLocalHost \cup {s.host} |->
                          IF h = s.host
                          THEN [nScore |-> Loc!Scored(h, nScore), nPort |-> Loc!PortOf(s, nScore)]
                          ELSE mapLocalHost[h]]
    BY DEF Loc!AddLocal
  <2>2. \A h : (IF h = s.host
                THEN [nScore |-> Loc!Scored(h, nScore), nPort |-> Loc!PortOf(s, nScore)]
                ELSE mapLocalHost[h])
               = IF h = x THEN [nScore |-> score, nPort |-> port] ELSE mapLocalHost[h]
    BY <1>1, <1>4, <1>5
  <2> QED
    BY <1>1, <2>1, <2>2
<1>10. [nScore |-> score, nPort |-> port] \in Address
  BY <1>6, <1>7, <1>8, NetworkAssumption DEF Address
<1>11. /\ DOMAIN mapLocalHost' \subseteq Loc!Hosts
       /\ \A h \in DOMAIN mapLocalHost' : mapLocalHost'[h] \in Address
  BY <1>3, <1>9, <1>10
<1>12. ScoresKept
  <2> SUFFICES ASSUME NEW h \in DOMAIN mapLocalHost
               PROVE  h \in DOMAIN mapLocalHost'
                      /\ mapLocalHost'[h].nScore >= mapLocalHost[h].nScore
    BY DEF ScoresKept
  <2>1. h \in DOMAIN mapLocalHost'
    BY <1>9
  <2>2. CASE h = x
    <3>1. mapLocalHost'[h].nScore = score
      BY <1>9, <2>2
    <3> QED
      BY <1>6, <2>1, <2>2, <3>1
  <2>3. CASE h # x
    <3>1. mapLocalHost'[h] = mapLocalHost[h]
      BY <1>9, <2>3
    <3> QED
      BY <1>3, <2>1, <3>1
  <2> QED
    BY <2>2, <2>3
<1>13. vfReachable' \in [Loc!Networks -> BOOLEAN]
  BY DEF Loc!AddLocal, Loc!Reached, LocalInv
<1>14. UNCHANGED <<vfLimited, setBanned, whose, vAddrToSend, setAddrKnown>>
  BY DEF Loc!AddLocal, Loc!told
<1> QED
  BY <1>11, <1>12, <1>13, <1>14 DEF LocalInv

LEMMA SeenLocalStep ==
    ASSUME LocalInv, NEW h \in Loc!Hosts, Loc!SeenLocal(h)
    PROVE  LocalInv' /\ ScoresKept
<1>1. \A x \in DOMAIN mapLocalHost : /\ x \in Loc!Hosts /\ mapLocalHost[x] \in Address
                                     /\ mapLocalHost[x].nScore \in Nat
                                     /\ mapLocalHost[x].nPort \in HostPorts
  BY NetworkAssumption DEF LocalInv, Address
<1>2. h \in DOMAIN mapLocalHost /\ mapLocalHost[h].nScore < MaxScore
  BY DEF Loc!SeenLocal, Loc!IsLocal
<1>3. PICK seen : seen = [mapLocalHost[h] EXCEPT !.nScore = @ + 1]
  OBVIOUS
<1>4. mapLocalHost' = [mapLocalHost EXCEPT ![h] = seen]
  BY <1>3 DEF Loc!SeenLocal
<1>5. seen \in Address /\ seen.nScore = mapLocalHost[h].nScore + 1
  <2>1. mapLocalHost[h] \in Address
    BY <1>1, <1>2
  <2>2. mapLocalHost[h].nScore + 1 \in 0..MaxScore
    BY <1>1, <1>2, NetworkAssumption
  <2> QED
    BY <1>3, <2>1, <2>2 DEF Address
<1>6. /\ DOMAIN mapLocalHost' = DOMAIN mapLocalHost
      /\ \A x \in DOMAIN mapLocalHost : mapLocalHost'[x] = IF x = h THEN seen ELSE mapLocalHost[x]
  BY <1>4
<1>7. /\ DOMAIN mapLocalHost' \subseteq Loc!Hosts
      /\ \A x \in DOMAIN mapLocalHost' : mapLocalHost'[x] \in Address
  BY <1>1, <1>5, <1>6
<1>8. ScoresKept
  <2>1. ASSUME NEW x \in DOMAIN mapLocalHost
        PROVE  mapLocalHost'[x].nScore >= mapLocalHost[x].nScore
    <3>1. PICK old \in Nat : old = mapLocalHost[x].nScore
      BY <1>1
    <3>2. mapLocalHost'[x].nScore = IF x = h THEN old + 1 ELSE old
      BY <1>5, <1>6, <3>1
    <3> QED
      BY <3>1, <3>2
  <2> QED
    BY <1>6, <2>1 DEF ScoresKept
<1>9. UNCHANGED <<vfReachable, vfLimited, setBanned, whose, vAddrToSend, setAddrKnown>>
  BY DEF Loc!SeenLocal, Loc!told
<1> QED
  BY <1>7, <1>8, <1>9 DEF LocalInv

\* What may be told a peer is an address of a host of ours.
LEMMA AdvertizedOurs ==
    ASSUME LocalInv, NEW p \in Visitors, NEW s \in Loc!Advertized(p), Loc!Routable(s)
    PROVE  s \in Loc!Services /\ HostIsRoutable[s.host]
<1>1. PICK ours : ours = Loc!GetLocal(p)
  OBVIOUS
<1>2. PICK theirs : theirs = [host |-> whose[p].host,
                              port |-> IF ours = Loc!Nowhere THEN ListenPort ELSE ours.port]
  OBVIOUS
<1>3. ours \in Loc!Services \cup {Loc!Nowhere}
  BY <1>1, LocalFound
<1>4. s = ours \/ (Loc!PeerAddrGood(p) /\ s = theirs)
  BY <1>1, <1>2 DEF Loc!Advertized
<1>5. s # Loc!Nowhere /\ HostIsRoutable[s.host]
  BY DEF Loc!Routable
<1>6. CASE s = ours
  BY <1>3, <1>5, <1>6
<1>7. CASE Loc!PeerAddrGood(p) /\ s = theirs
  <2>1. whose[p] # Loc!Nowhere
    BY <1>7 DEF Loc!PeerAddrGood, Loc!Routable
  <2>2. whose[p].host \in Loc!Hosts
    BY <2>1 DEF LocalInv, Loc!Services
  <2>3. (IF ours = Loc!Nowhere THEN ListenPort ELSE ours.port) \in HostPorts
    BY <1>3, NetworkAssumption DEF Loc!Services
  <2>4. theirs \in Loc!Services
    BY <1>2, <2>2, <2>3 DEF Loc!Services
  <2> QED
    BY <1>5, <1>7, <2>4
<1> QED
  BY <1>4, <1>6, <1>7

LEMMA AdvertizeStep ==
    ASSUME LocalInv, NEW p \in Visitors, Loc!AdvertizeLocal(p)
    PROVE  LocalInv' /\ ScoresKept
<1>1. PICK s \in Loc!Advertized(p) :
         /\ Loc!Routable(s)
         /\ \E to \in Loc!PushAddress(vAddrToSend[p], setAddrKnown[p], s) :
              vAddrToSend' = [vAddrToSend EXCEPT ![p] = to]
  BY DEF Loc!AdvertizeLocal
<1>2. s \in Loc!Services /\ HostIsRoutable[s.host]
  BY <1>1, AdvertizedOurs
<1>3. PICK to \in Loc!PushAddress(vAddrToSend[p], setAddrKnown[p], s) :
         vAddrToSend' = [vAddrToSend EXCEPT ![p] = to]
  BY <1>1
<1>4. PICK was : was = vAddrToSend[p]
  OBVIOUS
<1>5. DOMAIN vAddrToSend = Visitors /\ \A q \in Visitors : ToBeTold(vAddrToSend[q])
  BY DEF LocalInv
<1>6. PICK n \in Nat : n = Len(was) /\ was \in Seq(Loc!Services) /\ n <= MAX_ADDR_TO_SEND
  BY <1>4, <1>5 DEF ToBeTold
<1>7. MAX_ADDR_TO_SEND \in Nat /\ \A i \in 1..n : HostIsRoutable[was[i].host]
  BY <1>4, <1>5, <1>6, NetworkAssumption DEF ToBeTold
<1>8. ToBeTold(to)
  <2>1. CASE to = was
    BY <1>4, <1>5, <2>1
  <2>2. CASE n >= MAX_ADDR_TO_SEND /\ \E i \in 1..n : to = [was EXCEPT ![i] = s]
    <3>1. PICK i \in 1..n : to = [was EXCEPT ![i] = s]
      BY <2>2
    <3>2. to \in Seq(Loc!Services) /\ Len(to) = n
      BY <1>2, <1>6, <3>1
    <3>3. \A j \in 1..n : to[j] = IF j = i THEN s ELSE was[j]
      BY <1>6, <3>1
    <3> QED
      BY <1>2, <1>6, <1>7, <3>2, <3>3 DEF ToBeTold
  <2>3. CASE n < MAX_ADDR_TO_SEND /\ to = Append(was, s)
    <3>1. to \in Seq(Loc!Services) /\ Len(to) = n + 1
      BY <1>2, <1>6, <2>3
    <3>2. \A j \in 1..(n + 1) : to[j] = IF j = n + 1 THEN s ELSE was[j]
      BY <1>2, <1>6, <2>3
    <3>3. n + 1 <= MAX_ADDR_TO_SEND
      BY <1>7, <2>3
    <3>4. \A j \in 1..(n + 1) : HostIsRoutable[to[j].host]
      BY <1>2, <1>7, <3>2
    <3> QED
      BY <3>1, <3>3, <3>4 DEF ToBeTold
  <2>4. DOMAIN was = 1..n
    BY <1>6
  <2>5. \/ to = was
        \/ n >= MAX_ADDR_TO_SEND /\ \E i \in 1..n : to = [was EXCEPT ![i] = s]
        \/ ~(n >= MAX_ADDR_TO_SEND) /\ to = Append(was, s)
    BY <1>3, <1>4, <1>6, <2>4, Zenon DEF Loc!PushAddress
  <2>6. n < MAX_ADDR_TO_SEND \/ n >= MAX_ADDR_TO_SEND
    BY <1>7
  <2> QED
    BY <2>1, <2>2, <2>3, <2>5, <2>6
<1>9. DOMAIN vAddrToSend' = Visitors /\ \A q \in Visitors : ToBeTold(vAddrToSend'[q])
  <2>1. \A q \in Visitors : vAddrToSend'[q] = IF q = p THEN to ELSE vAddrToSend[q]
    BY <1>3, <1>5
  <2> QED
    BY <1>3, <1>5, <1>8, <2>1
<1>10. UNCHANGED <<mapLocalHost, vfReachable, vfLimited, setBanned, whose, setAddrKnown>>
  BY DEF Loc!AdvertizeLocal, Loc!addressVars
<1>11. ScoresKept
  <2>1. \A h \in DOMAIN mapLocalHost : mapLocalHost[h].nScore \in Nat
    BY NetworkAssumption DEF LocalInv, Address
  <2> QED
    BY <1>10, <2>1 DEF ScoresKept
<1> QED
  BY <1>9, <1>10, <1>11 DEF LocalInv

LEMMA LocalStep ==
    ASSUME LocalInv, Loc!Addresses
    PROVE  LocalInv' /\ ScoresKept /\ setBanned' = setBanned
<1>1. setBanned' = setBanned
  BY DEF Loc!Addresses, Loc!AddLocal, Loc!BindListenPort, Loc!Discover, Loc!ThreadMapPort,
         Loc!SeenLocal, Loc!SetLimited, Loc!SetReachable, Loc!AdvertizeLocal, Loc!SendAddrs,
         Loc!Version
<1>2. \A h \in DOMAIN mapLocalHost : mapLocalHost[h].nScore \in Nat
  BY NetworkAssumption DEF LocalInv, Address
<1>3. UNCHANGED mapLocalHost => ScoresKept
  BY <1>2 DEF ScoresKept
<1>4. CASE \E s \in Loc!Services :
             \/ Loc!AddLocal(s, 4)
             \/ \E fWhitelisted \in BOOLEAN : Loc!BindListenPort(s, fWhitelisted)
  BY <1>1, <1>4, AddLocalStep DEF Loc!BindListenPort, Loc!LOCAL_BIND
<1>5. CASE \E h \in Loc!Hosts : Loc!Discover(h) \/ Loc!ThreadMapPort(h)
  <2>1. PICK h \in Loc!Hosts : Loc!Discover(h) \/ Loc!ThreadMapPort(h)
    BY <1>5
  <2>2. PICK s : s = [host |-> h, port |-> ListenPort]
    OBVIOUS
  <2>3. s \in Loc!Services
    BY <2>2, NetworkAssumption DEF Loc!Services
  <2>4. Loc!AddLocal(s, 1) \/ Loc!AddLocal(s, 3)
    BY <2>1, <2>2 DEF Loc!Discover, Loc!ThreadMapPort, Loc!LOCAL_IF, Loc!LOCAL_UPNP
  <2> QED
    BY <1>1, <2>3, <2>4, AddLocalStep
<1>6. CASE \E h \in Loc!Hosts : Loc!SeenLocal(h)
  BY <1>1, <1>6, SeenLocalStep
<1>7. CASE \E n \in Loc!Networks :
             Loc!SetLimited(n) \/ \E fFlag \in BOOLEAN : Loc!SetReachable(n, fFlag)
  <2>1. PICK n \in Loc!Networks :
           Loc!SetLimited(n) \/ \E fFlag \in BOOLEAN : Loc!SetReachable(n, fFlag)
    BY <1>7
  <2>2. UNCHANGED <<mapLocalHost, whose, vAddrToSend, setAddrKnown>>
    BY <2>1 DEF Loc!SetLimited, Loc!SetReachable, Loc!addressVars, Loc!told
  <2>3. vfReachable' \in [Loc!Networks -> BOOLEAN] /\ vfLimited' \in [Loc!Networks -> BOOLEAN]
    <3>1. CASE Loc!SetLimited(n)
      BY <3>1 DEF Loc!SetLimited, Loc!addressVars, LocalInv
    <3>2. CASE \E fFlag \in BOOLEAN : Loc!SetReachable(n, fFlag)
      BY <3>2 DEF Loc!SetReachable, Loc!Reached, LocalInv
    <3> QED
      BY <2>1, <3>1, <3>2
  <2> QED
    BY <1>1, <1>3, <2>2, <2>3 DEF LocalInv
<1>8. CASE \E p \in Visitors : Loc!AdvertizeLocal(p)
  BY <1>1, <1>8, AdvertizeStep
<1>9. CASE \E p \in Visitors : Loc!SendAddrs(p)
  <2>1. PICK p \in Visitors : Loc!SendAddrs(p)
    BY <1>9
  <2>2. DOMAIN vAddrToSend = Visitors /\ \A q \in Visitors : ToBeTold(vAddrToSend[q])
    BY DEF LocalInv
  <2>3. ToBeTold(<< >>)
    BY NetworkAssumption DEF ToBeTold
  <2>4. DOMAIN vAddrToSend' = Visitors /\ \A q \in Visitors : ToBeTold(vAddrToSend'[q])
    BY <2>1, <2>2, <2>3 DEF Loc!SendAddrs
  <2>5. Loc!Range(vAddrToSend[p]) \subseteq Loc!Services
    <3>1. vAddrToSend[p] \in Seq(Loc!Services)
      BY <2>2 DEF ToBeTold
    <3> QED
      BY <3>1 DEF Loc!Range
  <2>6. setAddrKnown' \in [Visitors -> SUBSET Loc!Services]
    BY <2>1, <2>5 DEF Loc!SendAddrs, LocalInv
  <2>7. UNCHANGED <<mapLocalHost, vfReachable, vfLimited, whose>>
    BY <2>1 DEF Loc!SendAddrs, Loc!addressVars
  <2> QED
    BY <1>1, <1>3, <2>4, <2>6, <2>7 DEF LocalInv
<1>10. CASE \E p \in Visitors : \E s \in Loc!Services : Loc!Version(p, s)
  <2>1. PICK p \in Visitors, s \in Loc!Services : Loc!Version(p, s)
    BY <1>10
  <2>2. whose' \in [Visitors -> Loc!Services \cup {Loc!Nowhere}]
    BY <2>1 DEF Loc!Version, LocalInv
  <2>3. UNCHANGED <<mapLocalHost, vfReachable, vfLimited, vAddrToSend, setAddrKnown>>
    BY <2>1 DEF Loc!Version, Loc!addressVars, Loc!told
  <2> QED
    BY <1>1, <1>3, <2>2, <2>3 DEF LocalInv
<1> QED
  BY <1>4, <1>5, <1>6, <1>7, <1>8, <1>9, <1>10 DEF Loc!Addresses, Loc!LOCAL_MANUAL

LEMMA LocalStart == part = "local" /\ Loc!Init => LocalInv
<1> SUFFICES ASSUME Loc!Init PROVE LocalInv
  OBVIOUS
<1>1. mapLocalHost = << >> /\ DOMAIN mapLocalHost = {}
  BY DEF Loc!Init
<1>2. setBanned \in [Visitors -> 0..MaxTime + BanTime]
  BY NetworkAssumption DEF Loc!Init
<1>3. DOMAIN vAddrToSend = Visitors /\ \A p \in Visitors : ToBeTold(vAddrToSend[p])
  <2>1. ToBeTold(<< >>)
    BY NetworkAssumption DEF ToBeTold
  <2> QED
    BY <2>1 DEF Loc!Init
<1>4. /\ vfReachable \in [Loc!Networks -> BOOLEAN] /\ vfLimited \in [Loc!Networks -> BOOLEAN]
      /\ whose \in [Visitors -> Loc!Services \cup {Loc!Nowhere}]
      /\ setAddrKnown \in [Visitors -> SUBSET Loc!Services]
  BY DEF Loc!Init
<1> QED
  BY <1>1, <1>2, <1>3, <1>4 DEF LocalInv

\* In the parts that do not ban, nobody is banned, and in those that know no address of
\* ours, mapLocalHost is empty.
HostInv ==
    /\ setBanned \in [Visitors -> Int]
    /\ \A h \in DOMAIN mapLocalHost : mapLocalHost[h].nScore \in Int
    /\ part = "ban" => now \in Int
    /\ part = "local" => LocalInv

Unweakened == (\A p \in Visitors : setBanned'[p] >= setBanned[p]) /\ ScoresKept

LEMMA HostStart == PartsInit => HostInv
<1> SUFFICES ASSUME PartsInit PROVE HostInv
  OBVIOUS
<1>1. setBanned = [p \in Visitors |-> 0] /\ mapLocalHost = << >>
  BY DEF PartsInit, Loc!Init
<1>2. DOMAIN mapLocalHost = {}
  BY <1>1
<1>3. part = "ban" => now = 1
  BY DEF PartsInit, Loc!Init
<1>4. part = "local" => LocalInv
  BY LocalStart DEF PartsInit
<1> QED
  BY <1>1, <1>2, <1>3, <1>4 DEF HostInv

LEMMA HostStep == HostInv /\ [PartsNext]_partsVars => HostInv' /\ Unweakened
<1> SUFFICES ASSUME HostInv, [PartsNext]_partsVars PROVE HostInv' /\ Unweakened
  OBVIOUS
<1>1. part' = part
  BY PartKept
<1>2. /\ setBanned \in [Visitors -> Int]
      /\ \A h \in DOMAIN mapLocalHost : mapLocalHost[h].nScore \in Int
  BY DEF HostInv
<1>3. CASE LocalNext
  <2>1. LocalInv /\ Loc!Addresses /\ part = "local"
    BY <1>3 DEF LocalNext, HostInv
  <2>2. LocalInv' /\ ScoresKept /\ setBanned' = setBanned
    BY <2>1, LocalStep
  <2>3. \A h \in DOMAIN mapLocalHost' : mapLocalHost'[h].nScore \in Int
    BY <2>2, NetworkAssumption DEF LocalInv, Address
  <2> QED
    BY <1>1, <1>2, <2>1, <2>2, <2>3 DEF HostInv, Unweakened
<1>4. CASE BanNext
  <2>1. part = "ban" /\ now \in Int /\ Loc!Bans
    BY <1>4 DEF BanNext, HostInv
  <2>2. mapLocalHost' = mapLocalHost
    BY <2>1 DEF Loc!Bans, Loc!Clock, Loc!Ban, Loc!addressVars
  <2>3. ScoresKept
    BY <1>2, <2>2 DEF ScoresKept
  <2>4. now' \in Int
    BY <2>1 DEF Loc!Bans, Loc!Clock, Loc!Ban
  <2>5. setBanned' \in [Visitors -> Int] /\ \A p \in Visitors : setBanned'[p] >= setBanned[p]
    <3>1. CASE Loc!Clock
      BY <1>2, <3>1 DEF Loc!Clock
    <3>2. CASE \E p \in Visitors : Loc!Ban(p)
      <4>1. PICK p \in Visitors : Loc!Ban(p)
        BY <3>2
      <4>2. PICK b \in Int : b = setBanned[p]
        BY <1>2
      <4>3. PICK e \in Int : e = now + BanTime
        BY <2>1, NetworkAssumption
      <4>4. PICK c : c = Loc!Banned(p)
        OBVIOUS
      <4>5. c = IF b < e THEN e ELSE b
        BY <4>2, <4>3, <4>4 DEF Loc!Banned
      <4>6. c \in Int /\ c >= b
        BY <4>5
      <4>7. setBanned' = [setBanned EXCEPT ![p] = c]
        BY <4>1, <4>4 DEF Loc!Ban
      <4>8. \A q \in Visitors : setBanned'[q] = IF q = p THEN c ELSE setBanned[q]
        BY <1>2, <4>7
      <4>9. setBanned' \in [Visitors -> Int]
        BY <1>2, <4>6, <4>7
      <4>10. ASSUME NEW q \in Visitors PROVE setBanned'[q] >= setBanned[q]
        BY <1>2, <4>2, <4>6, <4>8
      <4> QED
        BY <4>9, <4>10
    <3> QED
      BY <2>1, <3>1, <3>2 DEF Loc!Bans
  <2> QED
    BY <1>1, <2>1, <2>2, <2>3, <2>4, <2>5, <1>2 DEF HostInv, Unweakened
<1>5. CASE UNCHANGED partsVars
  <2>1. UNCHANGED <<now, loc>>
    BY <1>5 DEF partsVars
  <2>2. Unweakened
    BY <1>2, <2>1 DEF Unweakened, ScoresKept, loc
  <2> QED
    BY <1>1, <2>1, <2>2 DEF HostInv, LocalInv, loc
<1>6. CASE /\ part \notin {"local", "ban"} /\ UNCHANGED loc
  <2>1. Unweakened
    BY <1>2, <1>6 DEF Unweakened, ScoresKept, loc
  <2> QED
    BY <1>1, <1>2, <1>6, <2>1 DEF HostInv, loc
<1>7. LocalNext \/ BanNext \/ UNCHANGED partsVars \/ (part \notin {"local", "ban"} /\ UNCHANGED loc)
  BY DEF PartsNext, AskNext, RelayNext, FileNext, AlertNext
<1> QED
  BY <1>3, <1>4, <1>5, <1>6, <1>7

\* No ban is shortened, though the clock is set back and the peer banned again, and no
\* report or vote lowers the score of a local address (CNode::Ban, AddLocal, SeenLocal).
THEOREM NothingIsWeakened == PartsSpec => NothingWeakened
<1>1. HostInv /\ [PartsNext]_partsVars => [Unweakened]_(Loc!vars)
  BY HostStep
<1>2. PartsSpec => [][Unweakened]_(Loc!vars)
  BY <1>1, HostStart, HostStep, PTL DEF PartsSpec
<1> QED
  BY <1>2, PTL DEF NothingWeakened, Loc!NothingWeakened, Unweakened, ScoresKept

\* "find 'best' local address for a particular peer": GetLocal's pass over mapLocalHost
\* finds one that no other is better than, and no more addresses than the limit, each of
\* a host of ours that can be routed, wait to be told (GetLocal, PushAddress).
THEOREM LocalIsTheBest == PartsSpec => []LocalIsBest
<1>1. HostInv => LocalIsBest
  <2> SUFFICES ASSUME LocalInv PROVE Loc!TypeOK /\ Loc!LocalIsBest /\ Loc!AddrsBounded
    BY DEF HostInv, LocalIsBest
  <2>1. \A p \in Visitors : Loc!Range(vAddrToSend[p])
                              = {vAddrToSend[p][i] : i \in 1..Len(vAddrToSend[p])}
    <3>1. \A p \in Visitors : DOMAIN vAddrToSend[p] = 1..Len(vAddrToSend[p])
      BY DEF LocalInv, ToBeTold
    <3> QED
      BY <3>1 DEF Loc!Range
  <2>2. \A p \in Visitors : Loc!Range(vAddrToSend[p]) \subseteq Loc!Services
    <3>1. ASSUME NEW p \in Visitors, NEW i \in 1..Len(vAddrToSend[p])
          PROVE  vAddrToSend[p][i] \in Loc!Services
      <4>1. vAddrToSend[p] \in Seq(Loc!Services)
        BY DEF LocalInv, ToBeTold
      <4> QED
        BY <4>1, ElementOfSeq
    <3> QED
      BY <2>1, <3>1
  <2>3. Loc!TypeOK
    <3>1. /\ DOMAIN mapLocalHost \subseteq Loc!Hosts
          /\ \A h \in DOMAIN mapLocalHost :
               mapLocalHost[h] \in [nScore : 0..MaxScore, nPort : HostPorts]
      BY Zenon DEF LocalInv, Address
    <3>2. /\ vfReachable \in [Loc!Networks -> BOOLEAN] /\ vfLimited \in [Loc!Networks -> BOOLEAN]
          /\ setBanned \in [Visitors -> 0..MaxTime + BanTime]
          /\ whose \in [Visitors -> Loc!Services \cup {Loc!Nowhere}]
          /\ setAddrKnown \in [Visitors -> SUBSET Loc!Services]
      BY Zenon DEF LocalInv
    <3> QED
      BY <2>2, <3>1, <3>2, Zenon DEF Loc!TypeOK
  <2>4. Loc!AddrsBounded
    <3>1. ASSUME NEW p \in Visitors
          PROVE  /\ Len(vAddrToSend[p]) <= MAX_ADDR_TO_SEND
                 /\ \A s \in Loc!Range(vAddrToSend[p]) : HostIsRoutable[s.host]
      <4>1. ToBeTold(vAddrToSend[p])
        BY DEF LocalInv
      <4>2. PICK to : to = vAddrToSend[p]
        OBVIOUS
      <4>3. /\ Len(to) <= MAX_ADDR_TO_SEND
            /\ \A i \in 1..Len(to) : HostIsRoutable[to[i].host]
        BY <4>1, <4>2 DEF ToBeTold
      <4>4. Loc!Range(to) = {to[i] : i \in 1..Len(to)}
        BY <2>1, <4>2, Zenon
      <4>5. \A s \in Loc!Range(to) : HostIsRoutable[s.host]
        BY <4>3, <4>4
      <4> QED
        BY <4>2, <4>3, <4>5, Zenon
    <3> QED
      BY <3>1, Zenon DEF Loc!AddrsBounded
  <2> QED
    BY <2>3, <2>4, FoundIsBest
<1> QED
  BY <1>1, HostStart, HostStep, PTL DEF PartsSpec
=============================================================================

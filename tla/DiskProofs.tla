----------------------------- MODULE DiskProofs -----------------------------
(***************************************************************************)
(* Theorems about the block layer for every disk and every cache of two    *)
(* blocks or more: the shape of the ring and its coherence with the file   *)
(* are invariants, no step drops a dirty block or writes one in another's  *)
(* place, the ring is replaced first-in first-out, and the layer as a      *)
(* whole implements the plain array of blocks.                             *)
(***************************************************************************)
EXTENDS ByteDisk, Arithmetic, SequenceTheorems, TLAPS

(* The inductive invariant.  The shape of the ring needs the types, the    *)
(* coherence needs the shape: a block cached twice could have a stale copy *)
(* found first.                                                            *)
IInv == TypeOK /\ RingShape /\ DiskCoherent

(* What find_cached_entry answers on a well-formed ring: the only slot in  *)
(* its range that holds the id, or -1 when no slot does.                   *)
LEMMA FindFindsTheEntry ==
    ASSUME TypeOK, RingShape, NEW b \in PassedIds
    PROVE  /\ Cached(b) => /\ find_cached_entry(b) \in Slots
                           /\ find_cached_entry(b) < cache_size
                           /\ ring_buffer[find_cached_entry(b)].block_id = b
           /\ \A i \in Slots : i < cache_size /\ ring_buffer[i].block_id = b =>
                 Cached(b) /\ find_cached_entry(b) = i
<1> DEFINE hits == {i \in 0 .. cache_size - 1 : ring_buffer[i].block_id = b}
<1> USE CacheBlocksAssumption, MaxBlocksAssumption
<1>1. cache_size \in 0 .. CacheBlocks
  BY DEF TypeOK
<1>2. \A i \in hits : i \in Slots /\ i < cache_size /\ ring_buffer[i].block_id = b
  BY <1>1 DEF Slots
<1>3. \A i, j \in hits : i = j
  <2>1. SUFFICES ASSUME NEW i \in hits, NEW j \in hits, i < j
                 PROVE  FALSE
    BY <1>1, <1>2 DEF Slots
  <2>2. QED
    BY <1>2, <2>1 DEF RingShape
<1>4. \A i \in Slots : i < cache_size /\ ring_buffer[i].block_id = b => i \in hits
  BY <1>1 DEF Slots
<1>5. CASE hits = {}
  BY <1>4, <1>5 DEF find_cached_entry, Cached
<1>6. CASE hits # {}
  <2>1. PICK i \in hits : TRUE
    BY <1>6
  <2>2. \A j \in hits : i <= j
    BY <1>1, <1>3, <2>1
  <2>3. find_cached_entry(b) = CHOOSE k \in hits : \A j \in hits : k <= j
    BY <1>6 DEF find_cached_entry
  <2>4. find_cached_entry(b) \in hits
    BY <2>1, <2>2, <2>3
  <2>5. find_cached_entry(b) # -1
    BY <1>1, <2>4
  <2>6. QED
    BY <1>2, <1>3, <1>4, <2>4, <2>5 DEF Cached
<1>7. QED
  BY <1>5, <1>6

(* Ids below zero are in nobody's way: a slot that holds a block of the    *)
(* file is in the range of the search.                                     *)
LEMMA BlocksAreSearched ==
    ASSUME TypeOK, RingShape, NEW i \in Slots, ring_buffer[i].block_id \in FileBlocks
    PROVE  i < cache_size
BY CacheBlocksAssumption, MaxBlocksAssumption
   DEF TypeOK, RingShape, Used, Capacity, Slots, FileBlocks, NoBlock

LEMMA IdsOfTheFile ==
    /\ FileBlocks \subseteq PassedIds /\ PassedIds \subseteq Int /\ BlockIds \subseteq Int
    /\ \A b \in BlockIds : b <= MaxBlocks => b \in PassedIds
    /\ \A b \in PassedIds : b >= 0 => b \in FileBlocks
<1>1. BlockIds \subseteq Int /\ FileBlocks \subseteq BlockIds
  BY BlockIdsAssumption DEF FileBlocks
<1>2. PassedIds \subseteq Int /\ \A b \in BlockIds : b <= MaxBlocks => b \in PassedIds
  BY <1>1 DEF PassedIds
<1>3. FileBlocks \subseteq PassedIds
  BY <1>1, MaxBlocksAssumption DEF FileBlocks, PassedIds
<1>4. \A b \in PassedIds : b >= 0 => b \in FileBlocks
  BY <1>1, MaxBlocksAssumption DEF FileBlocks, PassedIds
<1>5. QED
  BY <1>1, <1>2, <1>3, <1>4

(* What the slots hold: ids that are numbers, and data. *)
LEMMA EntriesAreTyped ==
    ASSUME TypeOK, NEW i \in Slots
    PROVE  /\ ring_buffer[i].block_id \in PassedIds \cup {NoBlock}
           /\ ring_buffer[i].block_id \in Int /\ ring_buffer[i].content \in Data
<1>1. ring_buffer[i] \in Entry
  BY DEF TypeOK
<1>2. ring_buffer[i].block_id \in PassedIds \cup {NoBlock} /\ ring_buffer[i].content \in Data
  BY <1>1 DEF Entry
<1>3. PassedIds \cup {NoBlock} \subseteq Int
  BY IdsOfTheFile DEF NoBlock
<1>4. QED
  BY <1>2, <1>3

LEMMA FindFindsTheBlock ==
    ASSUME TypeOK, RingShape, NEW b \in FileBlocks
    PROVE  /\ Cached(b) => /\ find_cached_entry(b) \in Slots
                           /\ find_cached_entry(b) < cache_size
                           /\ ring_buffer[find_cached_entry(b)].block_id = b
           /\ \A i \in Slots : ring_buffer[i].block_id = b =>
                 Cached(b) /\ find_cached_entry(b) = i
BY FindFindsTheEntry, BlocksAreSearched, IdsOfTheFile

(* A write through stdio keeps the file a file, and without failures it    *)
(* changes valid blocks only where it is told to.                          *)
LEMMA FileWriteEffect ==
    ASSUME NEW file \in [FileBlocks -> Data \cup {Absent}],
           NEW b \in PassedIds \cup {NoBlock}, NEW v \in Data, NEW ok \in BOOLEAN
    PROVE  /\ FileWrite(file, b, v, ok) \in [FileBlocks -> Data \cup {Absent}]
           /\ ok /\ b \in FileBlocks => FileWrite(file, b, v, ok)[b] = v
           /\ \A i \in FileBlocks : i # b /\ file[i] # Absent =>
                 FileWrite(file, b, v, ok)[i] = file[i]
           /\ \A i \in FileBlocks : file[i] # Absent =>
                 FileWrite(file, b, v, ok)[i] # Absent
<1>1. b \in Int
  BY IdsOfTheFile DEF NoBlock
<1>2. QED
  BY <1>1, DataAssumption DEF FileWrite, FileBlocks

LEMMA GoodWriteEffect ==
    ASSUME NEW file \in [FileBlocks -> Data \cup {Absent}],
           NEW b \in PassedIds \cup {NoBlock}, NEW v \in Data
    PROVE  /\ b \in FileBlocks => FileWrite(file, b, v, TRUE)[b] = v
           /\ \A i \in FileBlocks : i # b /\ file[i] # Absent =>
                 FileWrite(file, b, v, TRUE)[i] = file[i]
<1>1. b \in Int
  BY IdsOfTheFile DEF NoBlock
<1>2. QED
  BY <1>1, DataAssumption DEF FileWrite, FileBlocks

(* The ring before its first entry. *)
IsEmptyRing(ring) ==
    /\ ring \in [Slots -> Entry]
    /\ \A i \in Slots : ring[i].block_id = NoBlock /\ ~ring[i].is_dirty

LEMMA EmptyRings ==
    /\ IsEmptyRing(EmptyRing)
    /\ \A v \in Leftovers : IsEmptyRing(FreshRing(v))
<1>1. IsEmptyRing(EmptyRing)
  BY DataAssumption DEF IsEmptyRing, EmptyRing, EmptyEntry, Entry
<1>2. ASSUME NEW v \in Leftovers
      PROVE  IsEmptyRing(FreshRing(v))
  <2>1. v \in Data
    BY LeftoversAssumption
  <2>2. QED
    BY <1>1, <2>1 DEF IsEmptyRing, FreshRing, Entry
<1>3. QED
  BY <1>1, <1>2

LEMMA InitEstablishesIInv == Init => IInv
<1> SUFFICES ASSUME Init PROVE IInv
  OBVIOUS
<1> USE CacheBlocksAssumption, MaxBlocksAssumption, DataAssumption
<1>1. IsEmptyRing(ring_buffer)
  BY EmptyRings DEF Init
<1>2. TypeOK
  <2>1. result \in Results
    BY BlockIdsAssumption DEF Init, Results
  <2>2. disk \in [FileBlocks -> Data \cup {Absent}]
    BY DEF Init
  <2>3. disk_open \in BOOLEAN /\ cache_enabled \in BOOLEAN
    BY DEF Init
  <2>4. ring_buffer \in [Slots -> Entry]
    BY <1>1 DEF IsEmptyRing
  <2>5. cache_size \in 0 .. CacheBlocks /\ next_insert_pos \in Slots
    BY DEF Init, Slots
  <2>6. QED
    BY <2>1, <2>2, <2>3, <2>4, <2>5 DEF TypeOK
<1>3. RingShape
  BY <1>1 DEF Init, IsEmptyRing, RingShape, Used, Capacity, Slots
<1>4. DiskCoherent
  BY DEF Init, DiskCoherent, Slots
<1>5. QED
  BY <1>2, <1>3, <1>4 DEF IInv

(* Every answer is one of the results. *)
LEMMA ReturnIsAResult ==
    ASSUME NEW b \in BlockIds, NEW ret \in {-1, 0, 1}, NEW v \in Data \cup {Absent},
           NEW op \in {"mydisk_init", "mydisk_close", "init_cache", "close_cache",
                       "mydisk_read_block", "mydisk_write_block"},
           Return(op, b, ret, v)
    PROVE  result' \in Results
BY DEF Return, Results

(* A call that touches neither the ring nor the file keeps the invariant. *)
LEMMA QuietKeepsIInv ==
    ASSUME IInv, UNCHANGED <<disk, disk_open, cacheVars>>, result' \in Results
    PROVE  IInv'
<1>1. TypeOK'
  BY DEF IInv, TypeOK, cacheVars
<1>2. RingShape'
  BY DEF IInv, RingShape, Used, cacheVars
<1>3. DiskCoherent'
  BY DEF IInv, DiskCoherent, cacheVars
<1>4. QED
  BY <1>1, <1>2, <1>3 DEF IInv

(* With the ring empty, the invariant is about the file alone. *)
LEMMA EmptyRingKeepsIInv ==
    ASSUME IInv, disk' \in [FileBlocks -> Data \cup {Absent}], disk_open' \in BOOLEAN,
           cache_enabled' \in BOOLEAN, IsEmptyRing(ring_buffer'),
           cache_size' = 0, next_insert_pos' = 0, result' \in Results,
           ~IOFails => /\ disk_open' => \A b \in Blocks : disk'[b] # Absent
                       /\ cache_enabled' => disk_open'
    PROVE  IInv'
<1> USE CacheBlocksAssumption, DataAssumption
<1>2. TypeOK'
  BY DEF TypeOK, IsEmptyRing, Slots
<1>3. RingShape'
  BY DEF IsEmptyRing, RingShape, Used, Capacity, Slots
<1>4. DiskCoherent'
  BY DEF DiskCoherent, Slots
<1>5. QED
  BY <1>2, <1>3, <1>4 DEF IInv

(* With the cache off there is nothing in the ring: opening and closing the *)
(* disk keep the invariant.                                                *)
LEMMA RingUnusedKeepsIInv ==
    ASSUME IInv, ~cache_enabled, UNCHANGED cacheVars,
           disk' \in [FileBlocks -> Data \cup {Absent}], disk_open' \in BOOLEAN,
           result' \in Results,
           ~IOFails => (disk_open' => \A b \in Blocks : disk'[b] # Absent)
    PROVE  IInv'
<1> USE CacheBlocksAssumption
<1>1. TypeOK'
  BY DEF IInv, TypeOK, cacheVars
<1>2. RingShape'
  BY DEF IInv, RingShape, Used, cacheVars
<1>3. DiskCoherent'
  <2>1. cache_size' = 0 /\ ~cache_enabled'
    BY DEF IInv, RingShape, cacheVars
  <2>2. QED
    BY <2>1 DEF DiskCoherent, Slots
<1>4. QED
  BY <1>1, <1>2, <1>3 DEF IInv

(* close_cache leaves a file of blocks, and removes none. *)
LEMMA CloseFile ==
    ASSUME TypeOK, RingShape, close_cache
    PROVE  /\ disk' \in [FileBlocks -> Data \cup {Absent}]
           /\ \A b \in FileBlocks : disk[b] # Absent => disk'[b] # Absent
<1> USE CacheBlocksAssumption, DataAssumption DEF Flushed
<1>1. PICK wrote \in [0 .. cache_size - 1 -> IOOutcomes] :
        LET written == {i \in Flushed : wrote[i]}
            To(b) == {i \in written : ring_buffer[i].block_id = b}
            Above(b) == {i \in written : ring_buffer[i].block_id > b}
        IN  disk' = [b \in FileBlocks |->
                       IF To(b) # {} THEN ring_buffer[CHOOSE i \in To(b) : TRUE].content
                       ELSE IF Above(b) # {} /\ disk[b] = Absent THEN Zero
                       ELSE disk[b]]
  BY DEF close_cache
<1> DEFINE written == {i \in Flushed : wrote[i]}
           To(b) == {i \in written : ring_buffer[i].block_id = b}
           Above(b) == {i \in written : ring_buffer[i].block_id > b}
<1>2. disk' = [b \in FileBlocks |->
                  IF To(b) # {} THEN ring_buffer[CHOOSE i \in To(b) : TRUE].content
                  ELSE IF Above(b) # {} /\ disk[b] = Absent THEN Zero
                  ELSE disk[b]]
  BY <1>1
<1>3. \A i \in written : i \in Slots /\ ring_buffer[i].content \in Data
  BY DEF TypeOK, RingShape, Capacity, Slots, Entry
<1>4. \A b \in FileBlocks : To(b) # {} =>
        ring_buffer[CHOOSE i \in To(b) : TRUE].content \in Data
  <2>1. SUFFICES ASSUME NEW b \in FileBlocks, To(b) # {}
                 PROVE  ring_buffer[CHOOSE i \in To(b) : TRUE].content \in Data
    OBVIOUS
  <2>2. (CHOOSE i \in To(b) : TRUE) \in To(b)
    BY <2>1
  <2>3. QED
    BY <1>3, <2>2
<1> HIDE DEF To, Above
<1>5. \A b \in FileBlocks : disk'[b] \in Data \cup {Absent}
  BY <1>2, <1>4 DEF TypeOK
<1>6. \A b \in FileBlocks : disk[b] # Absent => disk'[b] # Absent
  BY <1>2, <1>4 DEF TypeOK
<1>7. disk' = [b \in FileBlocks |-> disk'[b]]
  BY <1>2
<1>8. disk' \in [FileBlocks -> Data \cup {Absent}]
  BY <1>5, <1>7
<1>9. QED
  BY <1>6, <1>8

LEMMA ManageKeepsIInv ==
    ASSUME IInv, mydisk_init \/ mydisk_close \/ init_cache \/ close_cache
    PROVE  IInv'
<1> USE MaxBlocksAssumption, DataAssumption
<1>r. 0 \in BlockIds
  BY BlockIdsAssumption
<1>b. Blocks \subseteq FileBlocks
  BY DEF Blocks, FileBlocks
<1>1. CASE mydisk_init
  <2>1. ~cache_enabled \/ IOFails
    BY <1>1 DEF mydisk_init, IInv, DiskCoherent
  <2>2. result' \in Results
    BY <1>1, <1>r, ReturnIsAResult DEF mydisk_init
  <2>3. UNCHANGED cacheVars
    BY <1>1 DEF mydisk_init
  <2>4. /\ disk' \in [FileBlocks -> Data \cup {Absent}] /\ disk_open' \in BOOLEAN
        /\ ~IOFails => \A b \in Blocks : disk'[b] # Absent
    <3>1. CASE disk' = [b \in FileBlocks |-> IF b \in Blocks THEN Zero ELSE Absent]
               /\ disk_open' = TRUE
      BY <3>1, <1>b
    <3>2. CASE IOFails /\ disk_open' = TRUE /\ \E written \in Blocks :
                disk' = [b \in FileBlocks |-> IF b < written THEN Zero ELSE Absent]
      BY <3>2
    <3>3. CASE IOFails /\ UNCHANGED <<disk, disk_open>>
      BY <3>3 DEF IInv, TypeOK
    <3>4. QED
      BY <1>1, <3>1, <3>2, <3>3 DEF mydisk_init
  <2>5. TypeOK'
    BY <2>2, <2>3, <2>4 DEF IInv, TypeOK, cacheVars
  <2>6. RingShape'
    BY <2>3 DEF IInv, RingShape, Used, cacheVars
  <2>7. DiskCoherent'
    <3>1. CASE IOFails
      BY <3>1 DEF DiskCoherent
    <3>2. CASE ~IOFails
      <4>1. ~cache_enabled
        BY <2>1, <3>2
      <4>2. IInv'
        BY <2>2, <2>3, <2>4, <3>2, <4>1, RingUnusedKeepsIInv
      <4>3. QED
        BY <4>2 DEF IInv
    <3>3. QED
      BY <3>1, <3>2
  <2>8. QED
    BY <2>5, <2>6, <2>7 DEF IInv
<1>2. CASE mydisk_close
  <2>1. result' \in Results
    BY <1>2, <1>r, ReturnIsAResult DEF mydisk_close
  <2>2. QED
    BY <1>2, <2>1, RingUnusedKeepsIInv DEF mydisk_close, IInv, TypeOK
<1>3. CASE init_cache
  <2>1. result' \in Results
    BY <1>3, <1>r, ReturnIsAResult DEF init_cache
  <2>2. QED
    BY <1>3, <2>1, EmptyRings, EmptyRingKeepsIInv DEF init_cache, IInv, TypeOK, DiskCoherent
<1>4. CASE close_cache
  <2>1. result' \in Results
    BY <1>4, <1>r, ReturnIsAResult DEF close_cache
  <2>2. /\ disk' \in [FileBlocks -> Data \cup {Absent}]
        /\ \A b \in FileBlocks : disk[b] # Absent => disk'[b] # Absent
    BY <1>4, CloseFile DEF IInv
  <2>3. ~IOFails => (disk_open' => \A b \in Blocks : disk'[b] # Absent)
    <3>1. disk_open' = disk_open
      BY <1>4 DEF close_cache
    <3>2. QED
      BY <1>b, <2>2, <3>1 DEF IInv, DiskCoherent
  <2>4. /\ disk_open' \in BOOLEAN /\ cache_enabled' = FALSE
        /\ IsEmptyRing(ring_buffer') /\ cache_size' = 0 /\ next_insert_pos' = 0
    BY <1>4, EmptyRings DEF close_cache, IInv, TypeOK
  <2>5. QED
    BY <2>1, <2>2, <2>3, <2>4, EmptyRingKeepsIInv
<1>5. QED
  BY <1>1, <1>2, <1>3, <1>4

(* Reads that miss nothing and writes that are refused change no state. *)
LEMMA QuietCallsKeepIInv ==
    ASSUME IInv, NEW b \in BlockIds, NEW v \in Data,
           \/ ReadInvalid(b) \/ ReadDirect(b) \/ ReadHit(b) \/ WriteInvalid(b, v)
    PROVE  IInv'
<1>1. UNCHANGED <<disk, disk_open, cacheVars>>
  BY DEF ReadInvalid, ReadDirect, ReadHit, WriteInvalid
<1>2. result' \in Results
  <2>1. CASE ReadInvalid(b)
    BY <2>1, ReturnIsAResult DEF ReadInvalid
  <2>2. CASE ReadDirect(b)
    <3>1. b \in PassedIds
      BY <2>2, IdsOfTheFile DEF ReadDirect
    <3>2. b >= 0 => disk[b] \in Data \cup {Absent}
      BY <3>1, IdsOfTheFile DEF IInv, TypeOK
    <3>3. \/ b >= 0 /\ Return("mydisk_read_block", b, 0, disk[b])
          \/ Return("mydisk_read_block", b, 1, Absent)
      BY <2>2 DEF ReadDirect
    <3>4. QED
      BY <3>2, <3>3, ReturnIsAResult
  <2>3. CASE ReadHit(b)
    <3>1. b \in PassedIds /\ Cached(b)
      BY <2>3, IdsOfTheFile DEF ReadHit
    <3>2. find_cached_entry(b) \in Slots
      BY <3>1, FindFindsTheEntry DEF IInv
    <3>3. ring_buffer[find_cached_entry(b)].content \in Data
      BY <3>2 DEF IInv, TypeOK, Entry
    <3>4. Return("mydisk_read_block", b, -1, ring_buffer[find_cached_entry(b)].content)
      BY <2>3 DEF ReadHit
    <3>5. QED
      BY <3>3, <3>4, ReturnIsAResult
  <2>4. CASE WriteInvalid(b, v)
    BY <2>4, ReturnIsAResult DEF WriteInvalid
  <2>5. QED
    BY <2>1, <2>2, <2>3, <2>4
<1>3. QED
  BY <1>1, <1>2, QuietKeepsIInv

(* A write past the cache: no entry of the ring is for that block, or the  *)
(* cache is off, so coherence is kept.                                     *)
LEMMA WriteFileKeepsIInv ==
    ASSUME IInv, NEW b \in BlockIds, NEW v \in Data, WriteFile(b, v)
    PROVE  IInv'
<1>1. b \in PassedIds /\ b \in Int
  BY IdsOfTheFile DEF WriteFile
<1>2. PICK ok \in IOOutcomes :
         /\ disk' = FileWrite(disk, b, v, ok)
         /\ Return("mydisk_write_block", b, IF ok /\ b >= 0 THEN 0 ELSE 1, v)
  BY DEF WriteFile
<1>3. ok \in BOOLEAN
  BY DEF IOOutcomes
<1>4. result' \in Results
  <2>1. /\ v \in Data \cup {Absent} /\ "mydisk_write_block" \in {"mydisk_write_block"}
        /\ (IF ok /\ b >= 0 THEN 0 ELSE 1) \in {-1, 0, 1}
    BY <1>3
  <2>2. QED
    BY <1>2, <2>1, ReturnIsAResult
<1>5. UNCHANGED <<disk_open, cacheVars>>
  BY DEF WriteFile
<1>6. /\ disk' \in [FileBlocks -> Data \cup {Absent}]
      /\ \A i \in FileBlocks : i # b /\ disk[i] # Absent => disk'[i] = disk[i]
      /\ \A i \in FileBlocks : disk[i] # Absent => disk'[i] # Absent
  <2>1. disk \in [FileBlocks -> Data \cup {Absent}] /\ b \in PassedIds \cup {NoBlock}
    BY <1>1 DEF IInv, TypeOK
  <2>2. QED
    BY <1>2, <1>3, <2>1, FileWriteEffect
<1>7. TypeOK'
  BY <1>4, <1>5, <1>6 DEF IInv, TypeOK, cacheVars
<1>8. RingShape'
  BY <1>5 DEF IInv, RingShape, Used, cacheVars
<1>9. \A i \in Slots : i < cache_size => ring_buffer[i].block_id # b
  <2>1. CASE ~cache_enabled
    BY <2>1, CacheBlocksAssumption DEF IInv, RingShape, Slots
  <2>2. CASE ~Cached(b)
    BY <1>1, <2>2, FindFindsTheEntry DEF IInv
  <2>3. QED
    BY <2>1, <2>2 DEF WriteFile
<1>10. DiskCoherent'
  <2>1. SUFFICES ASSUME ~IOFails PROVE DiskCoherent'
    BY DEF DiskCoherent
  <2>2. disk_open /\ \A i \in Blocks : disk[i] # Absent
    BY <2>1 DEF WriteFile, IInv, DiskCoherent
  <2>3. Blocks \subseteq FileBlocks
    BY MaxBlocksAssumption DEF Blocks, FileBlocks
  <2>4. QED
    BY <1>5, <1>6, <1>9, <2>1, <2>2, <2>3 DEF IInv, DiskCoherent, cacheVars
<1>11. QED
  BY <1>7, <1>8, <1>10 DEF IInv

LEMMA WriteHitKeepsIInv ==
    ASSUME IInv, NEW b \in BlockIds, NEW v \in Data, WriteHit(b, v)
    PROVE  IInv'
<1> DEFINE e == find_cached_entry(b)
<1>1. b \in PassedIds /\ Cached(b)
  BY IdsOfTheFile DEF WriteHit
<1>2. e \in Slots /\ e < cache_size /\ ring_buffer[e].block_id = b
  BY <1>1, FindFindsTheEntry DEF IInv
<1>3. /\ ring_buffer' = [ring_buffer EXCEPT ![e].content = v, ![e].is_dirty = TRUE]
      /\ UNCHANGED <<disk, disk_open, cache_enabled, cache_size, next_insert_pos>>
      /\ Return("mydisk_write_block", b, -1, v)
  BY DEF WriteHit
<1> HIDE DEF e
<1>4. result' \in Results
  BY <1>3, ReturnIsAResult
<1>5. ring_buffer \in [Slots -> Entry]
  BY DEF IInv, TypeOK
<1>6. ring_buffer' \in [Slots -> Entry]
  BY <1>2, <1>3, <1>5 DEF Entry
<1>7. /\ \A i \in Slots : ring_buffer'[i].block_id = ring_buffer[i].block_id
      /\ \A i \in Slots : i # e => ring_buffer'[i] = ring_buffer[i]
      /\ ring_buffer'[e].is_dirty
  BY <1>2, <1>3, <1>5 DEF Entry
<1>8. TypeOK'
  BY <1>3, <1>4, <1>6 DEF IInv, TypeOK
<1>9. RingShape'
  <2>1. \A i \in Slots : i >= Used => ring_buffer'[i].block_id = NoBlock
    BY <1>7 DEF IInv, RingShape
  <2>2. \A i, j \in Slots :
          i < j /\ j < cache_size => ring_buffer'[i].block_id # ring_buffer'[j].block_id
    BY <1>7 DEF IInv, RingShape
  <2>3. \A i \in Slots : ring_buffer'[i].is_dirty => i < cache_size
    BY <1>2, <1>7 DEF IInv, RingShape
  <2>4. QED
    BY <1>3, <1>7, <2>1, <2>2, <2>3 DEF IInv, RingShape, Used
<1>10. DiskCoherent'
  BY <1>3, <1>7 DEF IInv, DiskCoherent
<1>11. QED
  BY <1>8, <1>9, <1>10 DEF IInv

(* The step with something at stake: the entry at the cursor is written    *)
(* back and taken over by a block that was not cached.                     *)
LEMMA ReadMissKeepsIInv ==
    ASSUME IInv, NEW b \in BlockIds, ReadMiss(b)
    PROVE  IInv'
<1> USE CacheBlocksAssumption, MaxBlocksAssumption
<1> DEFINE pos == next_insert_pos
           victim == ring_buffer[next_insert_pos]
<1>1. b \in PassedIds /\ b \in Int /\ cache_enabled /\ disk_open /\ ~Cached(b)
  BY IdsOfTheFile DEF ReadMiss
<1>2. PICK wrote \in IOOutcomes, got \in IOOutcomes : create_cached_block(b, wrote, got)
  BY DEF ReadMiss
<1>3. UNCHANGED <<disk_open, cache_enabled>>
  BY DEF ReadMiss
<1> DEFINE file == IF victim.is_dirty
                   THEN FileWrite(disk, victim.block_id, victim.content, wrote)
                   ELSE disk
           read == got /\ b >= 0 /\ file[b] # Absent
           content == IF read THEN file[b] ELSE Zero
<1>4. /\ disk' = file
      /\ ring_buffer' = [ring_buffer EXCEPT ![pos] =
             [block_id |-> b, is_dirty |-> FALSE, content |-> content]]
      /\ next_insert_pos' = NextPos(pos)
      /\ cache_size' = IF victim.block_id = NoBlock THEN cache_size + 1 ELSE cache_size
      /\ \/ b >= 0 /\ Return("mydisk_read_block", b, 0, file[b])
         \/ Return("mydisk_read_block", b, 1, Absent)
  BY <1>2 DEF create_cached_block, WriteBack, NewEntry
<1>5. wrote \in BOOLEAN /\ got \in BOOLEAN /\ (~IOFails => wrote /\ got)
  BY DEF IOOutcomes
<1>6. /\ pos \in Slots /\ victim \in Entry
      /\ ring_buffer \in [Slots -> Entry]
      /\ cache_size \in 0 .. Capacity + 1 /\ pos \in 0 .. Capacity - 1
      /\ Slots = 0 .. Capacity /\ Capacity \in Nat \ {0} /\ CacheBlocks = Capacity + 1
  BY DEF IInv, TypeOK, RingShape, Capacity, Slots
<1>7. \A i \in Slots : i < cache_size => ring_buffer[i].block_id # b
  BY <1>1, FindFindsTheEntry DEF IInv
<1>8. victim.block_id \in PassedIds \cup {NoBlock}
  BY <1>6, EntriesAreTyped DEF IInv
<1>9. /\ file \in [FileBlocks -> Data \cup {Absent}]
      /\ \A i \in FileBlocks : disk[i] # Absent => file[i] # Absent
      /\ \A i \in FileBlocks : i # victim.block_id /\ disk[i] # Absent => file[i] = disk[i]
  <2>1. CASE victim.is_dirty
    <3>1. file = FileWrite(disk, victim.block_id, victim.content, wrote)
      BY <2>1
    <3>2. victim.content \in Data
      BY <1>6 DEF Entry
    <3>3. /\ disk \in [FileBlocks -> Data \cup {Absent}]
          /\ victim.block_id \in PassedIds \cup {NoBlock} /\ wrote \in BOOLEAN
      BY <1>5, <1>8, <2>1 DEF IInv, TypeOK
    <3> HIDE DEF victim, file
    <3>4. /\ FileWrite(disk, victim.block_id, victim.content, wrote)
                \in [FileBlocks -> Data \cup {Absent}]
          /\ \A i \in FileBlocks : i # victim.block_id /\ disk[i] # Absent =>
                FileWrite(disk, victim.block_id, victim.content, wrote)[i] = disk[i]
          /\ \A i \in FileBlocks : disk[i] # Absent =>
                FileWrite(disk, victim.block_id, victim.content, wrote)[i] # Absent
      <4> DEFINE id == victim.block_id
                 bytes == victim.content
      <4>1. id \in PassedIds \cup {NoBlock} /\ bytes \in Data
        BY <3>2, <3>3
      <4> HIDE DEF id, bytes
      <4>2. disk \in [FileBlocks -> Data \cup {Absent}] /\ wrote \in BOOLEAN
        BY <3>3
      <4>3. FileWrite(disk, id, bytes, wrote) \in [FileBlocks -> Data \cup {Absent}]
        BY <4>1, <4>2, FileWriteEffect
      <4>4. \A i \in FileBlocks : i # id /\ disk[i] # Absent =>
                  FileWrite(disk, id, bytes, wrote)[i] = disk[i]
        BY <4>1, <4>2, FileWriteEffect
      <4>5. \A i \in FileBlocks : disk[i] # Absent =>
                  FileWrite(disk, id, bytes, wrote)[i] # Absent
        BY <4>1, <4>2, FileWriteEffect
      <4>6. QED
        BY <4>3, <4>4, <4>5 DEF id, bytes
    <3>5. QED
      BY <3>1, <3>4
  <2>2. CASE ~victim.is_dirty
    BY <2>2 DEF IInv, TypeOK
  <2>3. QED
    BY <2>1, <2>2
<1> HIDE DEF file
<1>10. content \in Data /\ (b >= 0 => file[b] \in Data \cup {Absent})
  BY <1>1, <1>9, DataAssumption, IdsOfTheFile
<1>11. result' \in Results
  BY <1>4, <1>10, ReturnIsAResult
<1> HIDE DEF content
<1>12. /\ ring_buffer' \in [Slots -> Entry]
       /\ \A i \in Slots : i # pos => ring_buffer'[i] = ring_buffer[i]
       /\ ring_buffer'[pos] = [block_id |-> b, is_dirty |-> FALSE, content |-> content]
  BY <1>1, <1>4, <1>6, <1>10 DEF Entry
<1>13. ring_buffer'[pos].block_id = b /\ ~ring_buffer'[pos].is_dirty
       /\ ring_buffer'[pos].content = content
  BY <1>12
<1>14. /\ cache_size' \in 0 .. Capacity + 1 /\ next_insert_pos' \in 0 .. Capacity - 1
       /\ cache_size' < Capacity => next_insert_pos' = cache_size'
       /\ pos < cache_size' /\ cache_size <= cache_size'
       /\ \/ cache_size < Capacity /\ pos = cache_size /\ cache_size' = cache_size + 1
          \/ cache_size >= Capacity /\ victim.block_id # NoBlock /\ cache_size' = cache_size
          \/ /\ cache_size = Capacity /\ victim.block_id = NoBlock
             /\ cache_size' = Capacity + 1
  <2>1. next_insert_pos' = IF pos + 1 = Capacity THEN 0 ELSE pos + 1
    BY <1>4 DEF NextPos, Capacity
  <2>2. CASE cache_size < Capacity
    <3>1. pos = cache_size /\ victim.block_id = NoBlock
      BY <1>6, <2>2 DEF IInv, RingShape, Used
    <3>2. QED
      BY <1>4, <1>6, <2>1, <2>2, <3>1
  <2>3. CASE cache_size = Capacity
    BY <1>4, <1>6, <2>1, <2>3
  <2>4. CASE cache_size = Capacity + 1
    <3>1. ring_buffer[Capacity].block_id = NoBlock
      BY <1>6, <2>4 DEF IInv, RingShape, Used
    <3>2. victim.block_id # NoBlock
      BY <1>6, <2>4, <3>1 DEF IInv, RingShape
    <3>3. QED
      BY <1>4, <1>6, <2>1, <2>4, <3>2
  <2>5. QED
    BY <1>6, <2>2, <2>3, <2>4
<1>15. TypeOK'
  <2>1. /\ disk' \in [FileBlocks -> Data \cup {Absent}]
        /\ disk_open' \in BOOLEAN /\ cache_enabled' \in BOOLEAN
    BY <1>3, <1>4, <1>9 DEF IInv, TypeOK
  <2>2. cache_size' \in 0 .. CacheBlocks /\ next_insert_pos' \in Slots
    BY <1>14 DEF Capacity, Slots
  <2>3. QED
    BY <1>11, <1>12, <2>1, <2>2 DEF TypeOK
<1>16. RingShape'
  <2>1. ASSUME NEW i \in Slots, i >= Used'
        PROVE  ring_buffer'[i].block_id = NoBlock
    <3>1. i # pos /\ i >= Used
      BY <1>6, <1>14, <2>1 DEF Used, Capacity
    <3>2. QED
      BY <1>12, <3>1 DEF IInv, RingShape
  <2>2. ASSUME NEW i \in Slots, NEW j \in Slots, i < j, j < cache_size'
        PROVE  ring_buffer'[i].block_id # ring_buffer'[j].block_id
    <3>1. ASSUME NEW k \in Slots, k # pos, k < cache_size'
          PROVE  ring_buffer'[k].block_id # b
      <4>1. CASE k < cache_size
        BY <1>7, <1>12, <3>1, <4>1
      <4>2. CASE k >= cache_size
        <5>1. victim.block_id = NoBlock /\ pos < cache_size /\ k = Capacity
          BY <1>6, <1>14, <3>1, <4>2
        <5>2. b # NoBlock
          BY <1>6, <1>7, <5>1
        <5>3. ring_buffer[k].block_id = NoBlock
          BY <1>6, <5>1 DEF IInv, RingShape, Used
        <5>4. QED
          BY <1>12, <3>1, <5>2, <5>3
      <4>3. QED
        BY <1>6, <4>1, <4>2
    <3>2. CASE i = pos \/ j = pos
      <4>1. i < cache_size' /\ i # j
        BY <1>6, <1>14, <2>2
      <4>2. QED
        BY <1>13, <2>2, <3>1, <3>2, <4>1
    <3>3. CASE i # pos /\ j # pos /\ j < cache_size
      BY <1>12, <2>2, <3>3 DEF IInv, RingShape
    <3>4. CASE i # pos /\ j # pos /\ j >= cache_size
      <4>1. /\ victim.block_id = NoBlock /\ pos < cache_size /\ j = Capacity
            /\ i < cache_size
        BY <1>6, <1>14, <2>2, <3>4
      <4>2. ring_buffer[j].block_id = NoBlock
        BY <1>6, <4>1 DEF IInv, RingShape, Used
      <4>3. ring_buffer[i].block_id # NoBlock
        <5>1. i < pos \/ pos < i
          BY <1>6, <3>4
        <5>2. QED
          BY <1>6, <4>1, <5>1 DEF IInv, RingShape
      <4>4. QED
        BY <1>12, <3>4, <4>2, <4>3
    <3>5. QED
      BY <1>6, <1>14, <3>2, <3>3, <3>4
  <2>3. \A i \in Slots : ring_buffer'[i].is_dirty => i < cache_size'
    BY <1>6, <1>12, <1>13, <1>14 DEF IInv, RingShape
  <2>4. ASSUME NoBlock \notin BlockIds
        PROVE  /\ cache_size' <= Capacity
               /\ \A i \in Slots : i < cache_size' => ring_buffer'[i].block_id # NoBlock
    <3>1. cache_size <= Capacity
      BY <2>4 DEF IInv, RingShape
    <3>2. pos < cache_size => victim.block_id # NoBlock
      BY <1>6, <2>4 DEF IInv, RingShape
    <3>3. cache_size' <= Capacity
      BY <1>6, <1>14, <3>1, <3>2
    <3>4. b # NoBlock
      BY <1>1, <2>4 DEF PassedIds
    <3>5. ASSUME NEW i \in Slots, i < cache_size'
          PROVE  ring_buffer'[i].block_id # NoBlock
      <4>1. CASE i = pos
        BY <1>13, <3>4, <4>1
      <4>2. CASE i # pos
        <5>1. i < cache_size
          BY <1>6, <1>14, <3>1, <3>2, <3>5, <4>2
        <5>2. QED
          BY <1>12, <2>4, <4>2, <5>1 DEF IInv, RingShape
      <4>3. QED
        BY <4>1, <4>2
    <3>6. QED
      BY <3>3, <3>5
  <2>5. cache_enabled'
    BY <1>1, <1>3
  <2>6. QED
    BY <1>6, <1>14, <2>1, <2>2, <2>3, <2>4, <2>5 DEF RingShape, Capacity
<1>17. DiskCoherent'
  <2>1. SUFFICES ASSUME ~IOFails PROVE DiskCoherent'
    BY DEF DiskCoherent
  <2>2. Blocks \subseteq FileBlocks
    BY DEF Blocks, FileBlocks
  <2>3. \A i \in Blocks : disk[i] # Absent /\ disk'[i] # Absent
    BY <1>1, <1>4, <1>9, <2>1, <2>2 DEF IInv, DiskCoherent
  <2>4. ASSUME NEW i \in Slots, i < cache_size', ring_buffer'[i].block_id \in Blocks,
               ~ring_buffer'[i].is_dirty
        PROVE  ring_buffer'[i].content = disk'[ring_buffer'[i].block_id]
    <3>1. CASE i = pos
      <4>1. b \in Blocks /\ b >= 0
        BY <1>13, <2>4, <3>1 DEF Blocks
      <4>2. QED
        BY <1>4, <1>5, <1>13, <2>1, <2>3, <3>1, <4>1 DEF content
    <3>2. CASE i # pos
      <4>1. i < cache_size /\ ring_buffer'[i] = ring_buffer[i]
        <5>1. ring_buffer'[i] = ring_buffer[i]
          BY <1>12, <3>2
        <5>2. ring_buffer[i].block_id \in FileBlocks
          BY <2>2, <2>4, <5>1
        <5>3. QED
          BY <5>1, <5>2, BlocksAreSearched DEF IInv
      <4>2. ring_buffer[i].content = disk[ring_buffer[i].block_id]
        BY <2>1, <2>4, <4>1 DEF IInv, DiskCoherent
      <4>3. ring_buffer[i].block_id # victim.block_id
        <5>1. pos < i \/ i < pos
          BY <1>6, <3>2
        <5>2. ring_buffer[i].block_id # NoBlock
          BY <2>2, <2>4, <4>1 DEF FileBlocks, NoBlock
        <5>3. CASE pos < cache_size
          BY <1>6, <4>1, <5>1, <5>3 DEF IInv, RingShape
        <5>4. CASE ~(pos < cache_size)
          <6>1. pos >= Used
            BY <1>6, <5>4 DEF Used
          <6>2. QED
            BY <1>6, <5>2, <6>1 DEF IInv, RingShape
        <5>5. QED
          BY <1>6, <5>3, <5>4
      <4>4. QED
        BY <1>4, <1>9, <2>2, <2>3, <2>4, <4>1, <4>2, <4>3
    <3>3. QED
      BY <3>1, <3>2
  <2>5. cache_enabled' => disk_open'
    BY <1>1, <1>3
  <2>6. QED
    BY <2>3, <2>4, <2>5 DEF DiskCoherent
<1>18. QED
  BY <1>15, <1>16, <1>17 DEF IInv

LEMMA NextKeepsIInv == IInv /\ [Next]_vars => IInv'
<1> SUFFICES ASSUME IInv, [Next]_vars PROVE IInv'
  OBVIOUS
<1>1. CASE mydisk_init \/ mydisk_close \/ init_cache \/ close_cache
  BY <1>1, ManageKeepsIInv
<1>2. CASE \E b \in BlockIds : mydisk_read_block(b)
  <2>1. PICK b \in BlockIds : mydisk_read_block(b)
    BY <1>2
  <2>2. CASE ReadInvalid(b) \/ ReadDirect(b) \/ ReadHit(b)
    BY <2>2, DataAssumption, QuietCallsKeepIInv
  <2>3. CASE ReadMiss(b)
    BY <2>3, ReadMissKeepsIInv
  <2>4. QED
    BY <2>1, <2>2, <2>3 DEF mydisk_read_block
<1>3. CASE \E b \in BlockIds, v \in Data : mydisk_write_block(b, v)
  <2>1. PICK b \in BlockIds, v \in Data : mydisk_write_block(b, v)
    BY <1>3
  <2>2. QED
    BY <2>1, QuietCallsKeepIInv, WriteFileKeepsIInv, WriteHitKeepsIInv
       DEF mydisk_write_block
<1>4. CASE UNCHANGED vars
  BY <1>4 DEF vars, cacheVars, IInv, TypeOK, RingShape, Used, DiskCoherent
<1>5. QED
  BY <1>1, <1>2, <1>3, <1>4 DEF Next

(* Every reachable state of the block layer has its types, a well-formed   *)
(* ring (no block cached twice, the search of find_cached_entry exact) and, *)
(* while stdio does not fail, a cache coherent with the file; for every    *)
(* number of blocks and every cache of two blocks or more.                 *)
THEOREM InvariantHolds == Spec => []IInv
<1>1. QED
  BY InitEstablishesIInv, NextKeepsIInv, PTL DEF Spec

(* The types alone: cache_size and the cursor stay within the ring.        *)
THEOREM TypeCorrectness == Spec => []TypeOK
<1>1. IInv => TypeOK
  BY DEF IInv
<1>2. QED
  BY <1>1, InvariantHolds, PTL

(* Whatever ids are passed, those below zero that the guards let through   *)
(* among them, no sequence of misses and evictions caches an id twice or   *)
(* leaves a hole that the search of find_cached_entry would stop at, and   *)
(* the search stays within the ring, though an evicted id -1 can make it   *)
(* run past the capacity; for callers that never pass -1 it does not.      *)
THEOREM RingIsWellFormed == Spec => []RingShape
<1>1. IInv => RingShape
  BY DEF IInv
<1>2. QED
  BY <1>1, InvariantHolds, PTL

(* While stdio does not fail, an entry that is not dirty is its block.     *)
THEOREM CacheIsCoherent == Spec => []DiskCoherent
<1>1. IInv => DiskCoherent
  BY DEF IInv
<1>2. QED
  BY <1>1, InvariantHolds, PTL
-----------------------------------------------------------------------------
(* Where each block of the file comes from when the cache is closed; and   *)
(* while stdio does not fail no dirty entry is left out.                   *)
LEMMA CloseEffect ==
    ASSUME TypeOK, RingShape, close_cache
    PROVE  /\ \A b \in FileBlocks :
                \/ \E i \in Slots : /\ ring_buffer[i].block_id = b /\ ring_buffer[i].is_dirty
                                    /\ disk'[b] = ring_buffer[i].content
                \/ disk[b] = Absent /\ disk'[b] = Zero
                \/ disk'[b] = disk[b]
           /\ ~IOFails => \A i \in Slots :
                ring_buffer[i].is_dirty /\ ring_buffer[i].block_id \in FileBlocks =>
                    disk'[ring_buffer[i].block_id] = ring_buffer[i].content
<1> USE CacheBlocksAssumption DEF Flushed
<1>1. PICK wrote \in [0 .. cache_size - 1 -> IOOutcomes] :
        LET written == {i \in Flushed : wrote[i]}
            To(b) == {i \in written : ring_buffer[i].block_id = b}
            Above(b) == {i \in written : ring_buffer[i].block_id > b}
        IN  disk' = [b \in FileBlocks |->
                       IF To(b) # {} THEN ring_buffer[CHOOSE i \in To(b) : TRUE].content
                       ELSE IF Above(b) # {} /\ disk[b] = Absent THEN Zero
                       ELSE disk[b]]
  BY DEF close_cache
<1> DEFINE written == {i \in Flushed : wrote[i]}
           To(b) == {i \in written : ring_buffer[i].block_id = b}
           Above(b) == {i \in written : ring_buffer[i].block_id > b}
<1>2. \A b \in FileBlocks :
         disk'[b] = IF To(b) # {} THEN ring_buffer[CHOOSE i \in To(b) : TRUE].content
                    ELSE IF Above(b) # {} /\ disk[b] = Absent THEN Zero
                    ELSE disk[b]
  BY <1>1
<1>3. cache_size \in 0 .. CacheBlocks /\ Slots = 0 .. CacheBlocks - 1
  BY DEF TypeOK, RingShape, Capacity, Slots
<1>4. ASSUME NEW b \in FileBlocks, To(b) # {}
      PROVE  \E i \in Slots : /\ ring_buffer[i].block_id = b /\ ring_buffer[i].is_dirty
                              /\ i < cache_size /\ disk'[b] = ring_buffer[i].content
  <2>1. (CHOOSE i \in To(b) : TRUE) \in To(b)
    BY <1>4
  <2>2. PICK i \in 0 .. cache_size - 1 :
           /\ ring_buffer[i].block_id = b /\ ring_buffer[i].is_dirty
           /\ disk'[b] = ring_buffer[i].content
    BY <1>2, <1>4, <2>1
  <2>3. i \in Slots /\ i < cache_size
    BY <1>3
  <2>4. QED
    BY <2>2, <2>3
<1>5. ASSUME ~IOFails, NEW i \in Slots, ring_buffer[i].is_dirty,
             ring_buffer[i].block_id \in FileBlocks
      PROVE  disk'[ring_buffer[i].block_id] = ring_buffer[i].content
  <2> DEFINE b == ring_buffer[i].block_id
  <2>1. i < cache_size /\ i \in 0 .. cache_size - 1
    BY <1>3, <1>5 DEF RingShape
  <2>2. wrote[i]
    BY <1>5, <2>1 DEF IOOutcomes
  <2>3. b \in FileBlocks
    BY <1>5
  <2>4. i \in To(b)
    BY <1>5, <2>1, <2>2
  <2>5. PICK j \in Slots : /\ ring_buffer[j].block_id = b /\ j < cache_size
                           /\ disk'[b] = ring_buffer[j].content
    BY <1>4, <2>3, <2>4
  <2>6. i = j
    BY <1>3, <2>1, <2>5 DEF RingShape
  <2>7. QED
    BY <2>5, <2>6
<1> HIDE DEF To, Above
<1>6. QED
  BY <1>2, <1>4, <1>5

(* A write through stdio changes its block to the value written, and other *)
(* places only from nothing to zeros.                                      *)
LEMMA FileWriteChanges ==
    ASSUME NEW file \in [FileBlocks -> Data \cup {Absent}],
           NEW b \in Int, NEW v \in Data, NEW ok \in BOOLEAN, NEW i \in FileBlocks
    PROVE  \/ i = b /\ FileWrite(file, b, v, ok)[i] = v
           \/ file[i] = Absent /\ FileWrite(file, b, v, ok)[i] = Zero
           \/ FileWrite(file, b, v, ok)[i] = file[i]
BY DEF FileWrite

(* What a miss does, in one place: the entry at the cursor goes to the file *)
(* if it is dirty, and an entry for the block read takes its slot.         *)
LEMMA MissEffect ==
    ASSUME IInv, NEW b \in BlockIds, ReadMiss(b)
    PROVE  /\ next_insert_pos \in Slots
           /\ \A i \in Slots : i # next_insert_pos => ring_buffer'[i] = ring_buffer[i]
           /\ ring_buffer'[next_insert_pos].block_id = b
           /\ next_insert_pos' = NextPos(next_insert_pos)
           /\ cache_size' = IF ring_buffer[next_insert_pos].block_id = NoBlock
                            THEN cache_size + 1 ELSE cache_size
           /\ result'.call = "mydisk_read_block" /\ result'.block_id = b
           /\ \E wrote \in IOOutcomes : disk' = WriteBack(ring_buffer[next_insert_pos], wrote)
<1>1. PICK wrote \in IOOutcomes, got \in IOOutcomes : create_cached_block(b, wrote, got)
  BY DEF ReadMiss
<1> DEFINE pos == next_insert_pos
           new == NewEntry(b, disk', got /\ b >= 0 /\ disk'[b] # Absent)
<1>2. ring_buffer' = [ring_buffer EXCEPT ![pos] = new]
  BY <1>1 DEF create_cached_block
<1>3. new.block_id = b
  BY DEF NewEntry
<1>4. pos \in Slots /\ ring_buffer \in [Slots -> Entry]
  BY DEF IInv, TypeOK
<1> HIDE DEF new
<1>5. /\ \A i \in Slots : i # pos => ring_buffer'[i] = ring_buffer[i]
      /\ ring_buffer'[pos].block_id = b
  BY <1>2, <1>3, <1>4
<1>6. result'.call = "mydisk_read_block" /\ result'.block_id = b
  BY <1>1 DEF create_cached_block, Return
<1>7. /\ disk' = WriteBack(ring_buffer[pos], wrote)
      /\ next_insert_pos' = NextPos(pos)
      /\ cache_size' = IF ring_buffer[pos].block_id = NoBlock THEN cache_size + 1
                                                             ELSE cache_size
  BY <1>1 DEF create_cached_block
<1>8. QED
  BY <1>4, <1>5, <1>6, <1>7

(* Opening and closing the disk and the cache: only close_cache takes dirty *)
(* entries away.                                                           *)
LEMMA DirtyIsKeptByManage ==
    ASSUME IInv, mydisk_init \/ mydisk_close \/ init_cache \/ close_cache
    PROVE  DirtyIsKept
<1> SUFFICES ASSUME ~IOFails, NEW i \in Slots, ring_buffer[i].is_dirty,
                    ring_buffer[i].block_id \in FileBlocks
             PROVE  \/ /\ ring_buffer'[i].is_dirty
                       /\ ring_buffer'[i].block_id = ring_buffer[i].block_id
                    \/ disk'[ring_buffer[i].block_id] = ring_buffer[i].content
  BY DEF DirtyIsKept, StaysOrIsWritten
<1>1. CASE mydisk_init \/ mydisk_close
  <2>1. ring_buffer' = ring_buffer
    BY <1>1 DEF mydisk_init, mydisk_close, cacheVars
  <2>2. QED
    BY <2>1
<1>2. CASE init_cache
  <2>1. cache_size = 0 /\ i \in Nat
    BY <1>2, CacheBlocksAssumption DEF init_cache, IInv, RingShape, Slots
  <2>2. QED
    BY <2>1 DEF IInv, RingShape
<1>3. CASE close_cache
  BY <1>3, CloseEffect DEF IInv
<1>4. QED
  BY <1>1, <1>2, <1>3

(* The other steps: a miss takes the entry at the cursor away, a write into *)
(* the cache leaves an entry dirty.                                        *)
LEMMA StepKeepsDirty ==
    ASSUME IInv, [Next]_vars
    PROVE  DirtyIsKept
<1>1. CASE mydisk_init \/ mydisk_close \/ init_cache \/ close_cache
  BY <1>1, DirtyIsKeptByManage
<1> SUFFICES ASSUME ~(mydisk_init \/ mydisk_close \/ init_cache \/ close_cache), ~IOFails,
                    NEW i \in Slots, ring_buffer[i].is_dirty,
                    ring_buffer[i].block_id \in FileBlocks
             PROVE  \/ /\ ring_buffer'[i].is_dirty
                       /\ ring_buffer'[i].block_id = ring_buffer[i].block_id
                    \/ disk'[ring_buffer[i].block_id] = ring_buffer[i].content
  BY <1>1 DEF DirtyIsKept, StaysOrIsWritten
<1>2. ASSUME UNCHANGED ring_buffer
      PROVE  ring_buffer'[i].is_dirty /\ ring_buffer'[i].block_id = ring_buffer[i].block_id
  BY <1>2
<1>3. ASSUME NEW b \in BlockIds, ReadMiss(b)
      PROVE  \/ /\ ring_buffer'[i].is_dirty
                /\ ring_buffer'[i].block_id = ring_buffer[i].block_id
             \/ disk'[ring_buffer[i].block_id] = ring_buffer[i].content
  <2>1. CASE i # next_insert_pos
    BY <1>3, <2>1, MissEffect
  <2>2. CASE i = next_insert_pos
    <3>1. disk' = FileWrite(disk, ring_buffer[i].block_id, ring_buffer[i].content, TRUE)
      BY <1>3, <2>2, MissEffect DEF WriteBack, IOOutcomes
    <3>2. /\ ring_buffer[i].block_id \in FileBlocks /\ ring_buffer[i].content \in Data
          /\ disk \in [FileBlocks -> Data \cup {Absent}]
      BY DEF IInv, TypeOK, Entry
    <3>3. ASSUME NEW c \in FileBlocks, NEW v \in Data
          PROVE  FileWrite(disk, c, v, TRUE)[c] = v
      BY <3>3 DEF FileWrite, FileBlocks
    <3>4. QED
      BY <3>1, <3>2, <3>3
  <2>3. QED
    BY <2>1, <2>2
<1>4. ASSUME NEW b \in BlockIds, NEW v \in Data, WriteHit(b, v)
      PROVE  ring_buffer'[i].is_dirty /\ ring_buffer'[i].block_id = ring_buffer[i].block_id
  <2> DEFINE e == find_cached_entry(b)
  <2>1. ring_buffer' = [ring_buffer EXCEPT ![e].content = v, ![e].is_dirty = TRUE]
    BY <1>4 DEF WriteHit
  <2>2. ring_buffer \in [Slots -> Entry]
    BY DEF IInv, TypeOK
  <2> HIDE DEF e
  <2>3. QED
    BY <2>1, <2>2 DEF Entry
<1>5. CASE \E b \in BlockIds : mydisk_read_block(b)
  <2>1. PICK b \in BlockIds : mydisk_read_block(b)
    BY <1>5
  <2>2. UNCHANGED ring_buffer \/ ReadMiss(b)
    BY <2>1 DEF mydisk_read_block, ReadInvalid, ReadDirect, ReadHit, cacheVars
  <2>3. QED
    BY <1>2, <1>3, <2>2
<1>6. CASE \E b \in BlockIds, v \in Data : mydisk_write_block(b, v)
  <2>1. PICK b \in BlockIds, v \in Data : mydisk_write_block(b, v)
    BY <1>6
  <2>2. UNCHANGED ring_buffer \/ WriteHit(b, v)
    BY <2>1 DEF mydisk_write_block, WriteInvalid, WriteFile, cacheVars
  <2>3. QED
    BY <1>2, <1>4, <2>2
<1>7. CASE UNCHANGED vars
  BY <1>2, <1>7 DEF vars, cacheVars
<1>8. QED
  BY <1>5, <1>6, <1>7 DEF Next

(* Spec => DirtyIsNeverDropped: while stdio does not fail, a block written  *)
(* into the cache stays there or reaches the file in the step that takes   *)
(* its entry away, an eviction or close_cache.                             *)
THEOREM DirtyDataIsNeverDropped == Spec => DirtyIsNeverDropped
<1>1. IInv /\ [Next]_vars => [DirtyIsKept]_vars
  BY StepKeepsDirty
<1>2. QED
  BY <1>1, InvariantHolds, PTL DEF Spec, DirtyIsNeverDropped

(* The steps that change the file: mydisk_init, close_cache, a write past  *)
(* the cache and the write-back of a miss.                                 *)
LEMMA StepChangesBlocksAsWritten ==
    ASSUME IInv, [Next]_vars
    PROVE  BlocksChangeAsWritten
<1> SUFFICES ASSUME NEW c \in FileBlocks, disk'[c] # disk[c]
             PROVE  \/ /\ result'.call = "mydisk_write_block" /\ result'.block_id = c
                       /\ disk'[c] = result'.buffer
                    \/ \E i \in Slots : /\ ring_buffer[i].block_id = c
                                        /\ ring_buffer[i].is_dirty
                                        /\ disk'[c] = ring_buffer[i].content
                    \/ disk[c] = Absent /\ disk'[c] = Zero
                    \/ result'.call = "mydisk_init"
  BY DEF BlocksChangeAsWritten
<1>1. CASE mydisk_init
  BY <1>1 DEF mydisk_init, Return
<1>2. CASE close_cache
  BY <1>2, CloseEffect DEF IInv
<1>3. ASSUME NEW b \in BlockIds, NEW v \in Data, WriteFile(b, v)
      PROVE  \/ /\ result'.call = "mydisk_write_block" /\ result'.block_id = c
                /\ disk'[c] = result'.buffer
             \/ disk[c] = Absent /\ disk'[c] = Zero
  <2>1. PICK ok \in BOOLEAN : /\ disk' = FileWrite(disk, b, v, ok)
                              /\ Return("mydisk_write_block", b,
                                        IF ok /\ b >= 0 THEN 0 ELSE 1, v)
    BY <1>3 DEF WriteFile, IOOutcomes
  <2>2. b \in Int /\ disk \in [FileBlocks -> Data \cup {Absent}]
    BY <1>3, IdsOfTheFile DEF IInv, TypeOK
  <2>3. \/ c = b /\ FileWrite(disk, b, v, ok)[c] = v
        \/ disk[c] = Absent /\ FileWrite(disk, b, v, ok)[c] = Zero
        \/ FileWrite(disk, b, v, ok)[c] = disk[c]
    BY <2>2, FileWriteChanges
  <2>4. (c = b /\ disk'[c] = v) \/ (disk[c] = Absent /\ disk'[c] = Zero)
    BY <2>1, <2>3
  <2>5. /\ result'.call = "mydisk_write_block" /\ result'.block_id = b
        /\ result'.buffer = v
    BY <2>1 DEF Return
  <2>6. QED
    BY <2>4, <2>5
<1>4. ASSUME NEW b \in BlockIds, ReadMiss(b)
      PROVE  \/ \E i \in Slots : /\ ring_buffer[i].block_id = c /\ ring_buffer[i].is_dirty
                                 /\ disk'[c] = ring_buffer[i].content
             \/ disk[c] = Absent /\ disk'[c] = Zero
  <2> DEFINE victim == ring_buffer[next_insert_pos]
  <2>1. PICK wrote \in BOOLEAN : disk' = WriteBack(victim, wrote)
    BY <1>4, MissEffect DEF IOOutcomes
  <2>2. next_insert_pos \in Slots /\ victim.is_dirty
    BY <2>1 DEF WriteBack, IInv, TypeOK
  <2>3. disk' = FileWrite(disk, victim.block_id, victim.content, wrote)
    BY <2>1, <2>2 DEF WriteBack
  <2>4. /\ victim.block_id \in Int /\ victim.content \in Data
        /\ disk \in [FileBlocks -> Data \cup {Absent}]
    BY <2>2, EntriesAreTyped DEF IInv, TypeOK
  <2>5. \/ c = victim.block_id /\ disk'[c] = victim.content
        \/ disk[c] = Absent /\ disk'[c] = Zero
    BY <2>3, <2>4, FileWriteChanges
  <2>6. QED
    BY <2>2, <2>5
<1>5. CASE \E b \in BlockIds : mydisk_read_block(b)
  <2>1. PICK b \in BlockIds : mydisk_read_block(b)
    BY <1>5
  <2>2. ReadMiss(b)
    BY <2>1 DEF mydisk_read_block, ReadInvalid, ReadDirect, ReadHit
  <2>3. QED
    BY <1>4, <2>2
<1>6. CASE \E b \in BlockIds, v \in Data : mydisk_write_block(b, v)
  <2>1. PICK b \in BlockIds, v \in Data : mydisk_write_block(b, v)
    BY <1>6
  <2>2. WriteFile(b, v)
    BY <2>1 DEF mydisk_write_block, WriteInvalid, WriteHit
  <2>3. QED
    BY <1>3, <2>2
<1>7. CASE mydisk_close \/ init_cache \/ UNCHANGED vars
  BY <1>7 DEF mydisk_close, init_cache, vars
<1>8. QED
  BY <1>1, <1>2, <1>5, <1>6, <1>7 DEF Next

(* Spec => WritesGoHome: whatever calls of stdio fail, no step puts bytes   *)
(* of one block in the place of another.                                   *)
THEOREM BytesGoHome == Spec => WritesGoHome
<1>1. IInv /\ [Next]_vars => [BlocksChangeAsWritten]_vars
  BY StepChangesBlocksAsWritten
<1>2. QED
  BY <1>1, InvariantHolds, PTL DEF Spec, WritesGoHome

(* What the proof of CleanIsFileOrZeros needs besides IInv: only an open   *)
(* disk is cached, so mydisk_init finds the ring empty.                    *)
CleanInv == CleanIsFileOrZeros /\ (cache_enabled => disk_open)

(* An entry no step touched still holds the file's bytes or zeros when its *)
(* block's place in the file is as it was or became a hole of zeros.       *)
LEMMA CleanStaysClean ==
    ASSUME IInv, CleanInv, NEW i \in Slots, ring_buffer'[i] = ring_buffer[i],
           ring_buffer'[i].block_id \in FileBlocks, ~ring_buffer'[i].is_dirty,
           \/ disk'[ring_buffer[i].block_id] = disk[ring_buffer[i].block_id]
           \/ /\ disk[ring_buffer[i].block_id] = Absent
              /\ disk'[ring_buffer[i].block_id] = Zero
    PROVE  ring_buffer'[i].content \in {Zero, disk'[ring_buffer'[i].block_id]}
<1>1. i < cache_size
  BY BlocksAreSearched DEF IInv
<1>2. ring_buffer[i].content \in {Zero, disk[ring_buffer[i].block_id]}
  BY <1>1 DEF CleanInv, CleanIsFileOrZeros
<1>3. ring_buffer[i].content \in Data
  BY EntriesAreTyped DEF IInv
<1>4. QED
  BY <1>2, <1>3, DataAssumption

LEMMA WriteFileKeepsClean ==
    ASSUME IInv, CleanInv, NEW b \in BlockIds, NEW v \in Data, WriteFile(b, v),
           NEW i \in Slots, ring_buffer'[i].block_id \in FileBlocks,
           ~ring_buffer'[i].is_dirty
    PROVE  ring_buffer'[i].content \in {Zero, disk'[ring_buffer'[i].block_id]}
<1> DEFINE id == ring_buffer[i].block_id
<1>1. ring_buffer' = ring_buffer /\ b \in PassedIds /\ b \in Int
  BY IdsOfTheFile DEF WriteFile, cacheVars
<1>2. i < cache_size /\ id \in FileBlocks
  BY <1>1, BlocksAreSearched DEF IInv
<1>3. id # b
  <2>1. CASE ~cache_enabled
    BY <1>2, <2>1, CacheBlocksAssumption DEF IInv, RingShape, Slots
  <2>2. CASE ~Cached(b)
    BY <1>1, <1>2, <2>2, FindFindsTheEntry DEF IInv
  <2>3. QED
    BY <2>1, <2>2 DEF WriteFile
<1>4. PICK ok \in BOOLEAN : disk' = FileWrite(disk, b, v, ok)
  BY DEF WriteFile, IOOutcomes
<1>5. disk \in [FileBlocks -> Data \cup {Absent}]
  BY DEF IInv, TypeOK
<1> HIDE DEF id
<1>6. disk'[id] = disk[id] \/ (disk[id] = Absent /\ disk'[id] = Zero)
  BY <1>1, <1>2, <1>3, <1>4, <1>5, FileWriteChanges
<1>7. QED
  BY <1>1, <1>6, CleanStaysClean DEF id

LEMMA ReadMissKeepsClean ==
    ASSUME IInv, CleanInv, NEW b \in BlockIds, ReadMiss(b),
           NEW i \in Slots, ring_buffer'[i].block_id \in FileBlocks,
           ~ring_buffer'[i].is_dirty
    PROVE  ring_buffer'[i].content \in {Zero, disk'[ring_buffer'[i].block_id]}
<1> DEFINE pos == next_insert_pos
           victim == ring_buffer[next_insert_pos]
           id == ring_buffer[i].block_id
<1>1. PICK wrote \in IOOutcomes, got \in IOOutcomes : create_cached_block(b, wrote, got)
  BY DEF ReadMiss
<1>2. pos \in Slots /\ ring_buffer \in [Slots -> Entry] /\ disk \in [FileBlocks -> Data \cup {Absent}]
  BY DEF IInv, TypeOK
<1>3. CASE i = pos
  <2> DEFINE read == got /\ b >= 0 /\ disk'[b] # Absent
  <2>1. ring_buffer' = [ring_buffer EXCEPT ![pos] = NewEntry(b, disk', read)]
    BY <1>1 DEF create_cached_block
  <2> HIDE DEF read
  <2>2. ring_buffer'[pos] = NewEntry(b, disk', read)
    BY <1>2, <2>1
  <2>3. ring_buffer'[pos].block_id = b /\ ring_buffer'[pos].content \in {Zero, disk'[b]}
    BY <2>2 DEF NewEntry
  <2>4. QED
    BY <1>3, <2>3
<1>4. CASE i # pos
  <2>1. ring_buffer'[i] = ring_buffer[i] /\ id \in FileBlocks
    BY <1>4, MissEffect
  <2>2. i < cache_size
    BY <2>1, BlocksAreSearched DEF IInv
  <2>3. CASE victim.is_dirty
    <3>1. pos < cache_size
      BY <1>2, <2>3 DEF IInv, RingShape
    <3>2. victim.block_id # id
      BY <1>2, <1>4, <2>2, <3>1, CacheBlocksAssumption DEF IInv, RingShape, Slots
    <3>3. victim.block_id \in Int /\ victim.content \in Data /\ wrote \in BOOLEAN
      BY <1>2, EntriesAreTyped DEF IInv, IOOutcomes
    <3>4. disk' = FileWrite(disk, victim.block_id, victim.content, wrote)
      BY <1>1, <2>3 DEF create_cached_block, WriteBack
    <3> HIDE DEF id, victim
    <3>5. disk'[id] = disk[id] \/ (disk[id] = Absent /\ disk'[id] = Zero)
      BY <1>2, <2>1, <3>2, <3>3, <3>4, FileWriteChanges
    <3>6. QED
      BY <2>1, <3>5, CleanStaysClean DEF id
  <2>4. CASE ~victim.is_dirty
    <3>1. disk' = disk
      BY <1>1, <2>4 DEF create_cached_block, WriteBack
    <3>2. QED
      BY <2>1, <3>1, CleanStaysClean
  <2>5. QED
    BY <2>3, <2>4
<1>5. QED
  BY <1>3, <1>4

LEMMA WriteHitKeepsClean ==
    ASSUME IInv, CleanInv, NEW b \in BlockIds, NEW v \in Data, WriteHit(b, v),
           NEW i \in Slots, ring_buffer'[i].block_id \in FileBlocks,
           ~ring_buffer'[i].is_dirty
    PROVE  ring_buffer'[i].content \in {Zero, disk'[ring_buffer'[i].block_id]}
<1> DEFINE e == find_cached_entry(b)
<1>1. ring_buffer \in [Slots -> Entry]
  BY DEF IInv, TypeOK
<1>2. /\ ring_buffer' = [ring_buffer EXCEPT ![e].content = v, ![e].is_dirty = TRUE]
      /\ disk' = disk
  BY DEF WriteHit
<1> HIDE DEF e
<1>3. i # e
  BY <1>1, <1>2 DEF Entry
<1>4. ring_buffer'[i] = ring_buffer[i]
  BY <1>1, <1>2, <1>3
<1>5. QED
  BY <1>2, <1>4, CleanStaysClean

LEMMA StepKeepsClean ==
    ASSUME IInv, IInv', CleanInv, [Next]_vars
    PROVE  CleanInv'
<1>1. cache_enabled' => disk_open'
  BY DEF CleanInv, Next, mydisk_init, mydisk_close, init_cache, close_cache,
         mydisk_read_block, ReadInvalid, ReadDirect, ReadHit, ReadMiss,
         mydisk_write_block, WriteInvalid, WriteFile, WriteHit, vars, cacheVars
<1>2. SUFFICES ASSUME NEW i \in Slots, i < cache_size',
                      ring_buffer'[i].block_id \in FileBlocks, ~ring_buffer'[i].is_dirty
               PROVE  ring_buffer'[i].content \in {Zero, disk'[ring_buffer'[i].block_id]}
  BY <1>1 DEF CleanInv, CleanIsFileOrZeros
<1>3. CASE mydisk_init
  <2>1. cache_size = 0 /\ cache_size' = cache_size
    BY <1>3 DEF mydisk_init, CleanInv, IInv, RingShape, cacheVars
  <2>2. QED
    BY <1>2, <2>1 DEF Slots
<1>4. CASE init_cache \/ close_cache
  <2>1. cache_size' = 0
    BY <1>4 DEF init_cache, close_cache
  <2>2. QED
    BY <1>2, <2>1 DEF Slots
<1>5. CASE mydisk_close \/ UNCHANGED vars
  <2>1. ring_buffer' = ring_buffer /\ disk' = disk
    BY <1>5 DEF mydisk_close, vars, cacheVars
  <2>2. QED
    BY <1>2, <2>1, CleanStaysClean
<1>6. ASSUME NEW b \in BlockIds, mydisk_read_block(b)
      PROVE  ring_buffer'[i].content \in {Zero, disk'[ring_buffer'[i].block_id]}
  <2>1. CASE ReadMiss(b)
    BY <1>2, <2>1, ReadMissKeepsClean
  <2>2. CASE ReadInvalid(b) \/ ReadDirect(b) \/ ReadHit(b)
    <3>1. ring_buffer' = ring_buffer /\ disk' = disk
      BY <2>2 DEF ReadInvalid, ReadDirect, ReadHit, cacheVars
    <3>2. QED
      BY <1>2, <3>1, CleanStaysClean
  <2>3. QED
    BY <1>6, <2>1, <2>2 DEF mydisk_read_block
<1>7. ASSUME NEW b \in BlockIds, NEW v \in Data, mydisk_write_block(b, v)
      PROVE  ring_buffer'[i].content \in {Zero, disk'[ring_buffer'[i].block_id]}
  <2>1. CASE WriteFile(b, v)
    BY <1>2, <2>1, WriteFileKeepsClean
  <2>2. CASE WriteHit(b, v)
    BY <1>2, <2>2, WriteHitKeepsClean
  <2>3. CASE WriteInvalid(b, v)
    <3>1. ring_buffer' = ring_buffer /\ disk' = disk
      BY <2>3 DEF WriteInvalid, cacheVars
    <3>2. QED
      BY <1>2, <3>1, CleanStaysClean
  <2>4. QED
    BY <1>7, <2>1, <2>2, <2>3 DEF mydisk_write_block
<1>8. QED
  BY <1>3, <1>4, <1>5, <1>6, <1>7 DEF Next

(* Spec => []CleanIsFileOrZeros: whatever calls of stdio fail, no hit serves *)
(* the bytes of another block or an older state of its own, only zeros     *)
(* besides what the file has.                                              *)
THEOREM CleanEntriesAreFileOrZeros == Spec => []CleanIsFileOrZeros
<1>1. Init => CleanInv
  BY DEF Init, CleanInv, CleanIsFileOrZeros, Slots
<1>2. IInv /\ IInv' /\ CleanInv /\ [Next]_vars => CleanInv'
  BY StepKeepsClean
<1>3. CleanInv => CleanIsFileOrZeros
  BY DEF CleanInv
<1>4. QED
  BY <1>1, <1>2, <1>3, InvariantHolds, PTL DEF Spec

(* The slot of the k-th oldest entry: from slot 0 on while the ring fills, *)
(* from the cursor on, once around, when it is full.                       *)
OldestSlot == IF Used < Capacity THEN 0 ELSE next_insert_pos
FifoSlot(k) == IF OldestSlot + k - 1 < Capacity THEN OldestSlot + k - 1
                                               ELSE OldestSlot + k - 1 - Capacity

(* The order of FifoOrder, read from these slots. *)
FifoIsBySlots ==
    /\ FifoOrder \in Seq(PassedIds \cup {NoBlock})
    /\ Len(FifoOrder) = Used
    /\ \A k \in 1 .. Used : /\ FifoSlot(k) \in Slots
                                  /\ FifoOrder[k] = ring_buffer[FifoSlot(k)].block_id

LEMMA FifoOrderBySlots == IInv => FifoIsBySlots
<1> SUFFICES ASSUME IInv PROVE FifoIsBySlots
  OBVIOUS
<1> USE CacheBlocksAssumption
<1>1. /\ Capacity \in Nat \ {0} /\ Slots = 0 .. Capacity
      /\ Used \in 0 .. Capacity /\ OldestSlot \in 0 .. Capacity - 1
      /\ Used < Capacity <=> cache_size < Capacity
      /\ ring_buffer \in [Slots -> Entry]
  BY DEF IInv, TypeOK, RingShape, Used, Capacity, Slots, OldestSlot
<1>2. ASSUME NEW k \in 1 .. Used
      PROVE  /\ (OldestSlot + k - 1) % Capacity = FifoSlot(k)
             /\ FifoSlot(k) \in Slots
  <2> DEFINE n == Capacity
             a == OldestSlot
             j == k - 1
  <2>1. n \in Nat \ {0} /\ a \in 0 .. n - 1 /\ j \in 0 .. n /\ k = j + 1
    BY <1>1
  <2>2. FifoSlot(k) = IF a + j < n THEN a + j ELSE a + j - n
    BY <1>1 DEF FifoSlot
  <2>3. OldestSlot + k - 1 = a + j
    BY <1>1
  <2>4. Slots = 0 .. n
    BY <1>1
  <2> HIDE DEF n, a, j
  <2>5. (a + j) % n = IF a + j < n THEN a + j ELSE a + j - n
    BY <2>1, RingPosition
  <2>6. (IF a + j < n THEN a + j ELSE a + j - n) \in 0 .. n
    BY <2>1
  <2>7. QED
    BY <2>2, <2>3, <2>4, <2>5, <2>6 DEF n
<1>3. FifoOrder = [k \in 1 .. Used |-> ring_buffer[FifoSlot(k)].block_id]
  BY <1>1, <1>2 DEF FifoOrder, OldestSlot
<1>4. \A k \in 1 .. Used :
         ring_buffer[FifoSlot(k)].block_id \in PassedIds \cup {NoBlock}
  BY <1>1, <1>2 DEF Entry
<1>5. QED
  BY <1>1, <1>2, <1>3, <1>4 DEF FifoIsBySlots

LEMMA FifoOrderBySlotsNext == IInv' => FifoIsBySlots'
BY FifoOrderBySlots, PTL

(* A miss: the block read comes last, and the others keep their order; in  *)
(* a full ring the first of them is gone.                                  *)
LEMMA MissAppends ==
    ASSUME IInv, IInv', NEW b \in BlockIds, ReadMiss(b)
    PROVE  FifoOrder' = Append(IF Len(FifoOrder) < Capacity THEN FifoOrder
                                                           ELSE Tail(FifoOrder), b)
<1> USE CacheBlocksAssumption
<1> DEFINE ids == PassedIds \cup {NoBlock}
           pos == next_insert_pos
           old == IF Len(FifoOrder) < Capacity THEN FifoOrder ELSE Tail(FifoOrder)
<1>1. /\ Capacity \in Nat \ {0} /\ CacheBlocks = Capacity + 1 /\ Slots = 0 .. Capacity
      /\ Used \in 0 .. Capacity /\ pos \in 0 .. Capacity - 1
      /\ Used < Capacity => pos = Used /\ cache_size = Used
      /\ ~(Used < Capacity) => cache_size >= Capacity
      /\ cache_size \in 0 .. Capacity + 1
  BY DEF IInv, TypeOK, RingShape, Used, Capacity, Slots
<1>2. /\ \A i \in Slots : i # pos => ring_buffer'[i] = ring_buffer[i]
      /\ ring_buffer'[pos].block_id = b
      /\ next_insert_pos' = IF pos + 1 = Capacity THEN 0 ELSE pos + 1
  BY MissEffect DEF NextPos, Capacity
<1>3. Used' = IF Used < Capacity THEN Used + 1 ELSE Used
  <2>1. cache_size' = IF ring_buffer[pos].block_id = NoBlock THEN cache_size + 1 ELSE cache_size
    BY MissEffect
  <2>2. Used' = IF cache_size' < Capacity THEN cache_size' ELSE Capacity
    BY DEF Used, Capacity
  <2>3. CASE Used < Capacity
    <3>1. ring_buffer[pos].block_id = NoBlock
      BY <1>1, <2>3 DEF IInv, RingShape
    <3>2. QED
      BY <1>1, <2>1, <2>2, <2>3, <3>1
  <2>4. CASE ~(Used < Capacity)
    BY <1>1, <2>1, <2>2, <2>4
  <2>5. QED
    BY <2>3, <2>4
<1>4. b \in ids
  BY IdsOfTheFile DEF ReadMiss
<1>5. /\ FifoOrder \in Seq(ids) /\ Len(FifoOrder) = Used
      /\ FifoOrder' \in Seq(ids) /\ Len(FifoOrder') = Used'
  BY FifoOrderBySlots, FifoOrderBySlotsNext DEF FifoIsBySlots
<1>6. /\ old \in Seq(ids) /\ Len(old) = Used' - 1
      /\ \A k \in 1 .. Len(old) :
            old[k] = FifoOrder[IF Used < Capacity THEN k ELSE k + 1]
  <2>1. CASE Used < Capacity
    BY <1>1, <1>3, <1>5, <2>1
  <2>2. CASE ~(Used < Capacity)
    <3>1. old = Tail(FifoOrder) /\ FifoOrder # << >> /\ Used' = Used
      BY <1>1, <1>3, <1>5, <2>2
    <3>2. QED
      BY <1>1, <1>5, <2>2, <3>1, HeadTailProperties
  <2>3. QED
    BY <2>1, <2>2
<1>7. ASSUME NEW k \in 1 .. Used'
      PROVE  FifoOrder'[k] = Append(old, b)[k]
  <2>1. /\ FifoSlot(k)' \in Slots
        /\ FifoOrder'[k] = ring_buffer'[FifoSlot(k)'].block_id
    BY FifoOrderBySlotsNext DEF FifoIsBySlots
  <2>2. FifoSlot(k)' = IF OldestSlot' + k - 1 < Capacity THEN OldestSlot' + k - 1
                                                        ELSE OldestSlot' + k - 1 - Capacity
    BY DEF FifoSlot, Capacity
  <2>3. OldestSlot' = IF Used' < Capacity THEN 0 ELSE next_insert_pos'
    BY DEF OldestSlot, Capacity
  <2>4. CASE k = Used'
    <3>1. FifoSlot(k)' = pos
      BY <1>1, <1>2, <1>3, <2>2, <2>3, <2>4
    <3>2. Append(old, b)[k] = b
      BY <1>4, <1>6, <2>4
    <3>3. QED
      BY <1>2, <2>1, <3>1, <3>2
  <2>5. CASE k # Used'
    <3> DEFINE j == IF Used < Capacity THEN k ELSE k + 1
    <3>1. j \in 1 .. Used /\ k \in 1 .. Len(old)
      BY <1>1, <1>3, <1>6, <2>5
    <3>2. FifoSlot(j) \in Slots /\ FifoOrder[j] = ring_buffer[FifoSlot(j)].block_id
      BY <3>1, FifoOrderBySlots DEF FifoIsBySlots
    <3>3. FifoSlot(k)' = FifoSlot(j) /\ FifoSlot(j) # pos
      BY <1>1, <1>2, <1>3, <2>2, <2>3, <2>5 DEF FifoSlot, OldestSlot
    <3>4. Append(old, b)[k] = FifoOrder[j]
      BY <1>4, <1>6, <3>1
    <3>5. QED
      BY <1>2, <2>1, <3>2, <3>3, <3>4
  <2>6. QED
    BY <2>4, <2>5
<1> HIDE DEF old, ids
<1>8. /\ Append(old, b) \in Seq(ids) /\ Len(Append(old, b)) = Used'
  BY <1>1, <1>3, <1>4, <1>6
<1>9. FifoOrder' = Append(old, b)
  BY <1>5, <1>7, <1>8, SeqEqual
<1>10. QED
  BY <1>9 DEF old

LEMMA StepReplacesOldest ==
    ASSUME IInv, IInv', [Next]_vars
    PROVE  OldestIsReplaced
<1> SUFFICES ASSUME cache_enabled, cache_enabled'
             PROVE  \/ FifoOrder' = FifoOrder
                    \/ /\ result'.call = "mydisk_read_block"
                       /\ FifoOrder' = Append(IF Len(FifoOrder) < Capacity THEN FifoOrder
                                                                         ELSE Tail(FifoOrder),
                                              result'.block_id)
  BY DEF OldestIsReplaced
<1>1. ASSUME UNCHANGED cacheVars
      PROVE  FifoOrder' = FifoOrder
  BY <1>1 DEF FifoOrder, Used, cacheVars, Capacity
<1>2. CASE mydisk_init \/ mydisk_close \/ init_cache \/ close_cache
  BY <1>1, <1>2 DEF mydisk_init, mydisk_close, init_cache, close_cache
<1>3. CASE \E b \in BlockIds : mydisk_read_block(b)
  <2>1. PICK b \in BlockIds : mydisk_read_block(b)
    BY <1>3
  <2>2. UNCHANGED cacheVars \/ ReadMiss(b)
    BY <2>1 DEF mydisk_read_block, ReadInvalid, ReadDirect, ReadHit
  <2>3. ASSUME ReadMiss(b)
        PROVE  result'.call = "mydisk_read_block" /\ result'.block_id = b
    BY <2>3, MissEffect
  <2>4. QED
    BY <1>1, <2>2, <2>3, MissAppends
<1>4. CASE \E b \in BlockIds, v \in Data : mydisk_write_block(b, v)
  <2>1. PICK b \in BlockIds, v \in Data : mydisk_write_block(b, v)
    BY <1>4
  <2>2. CASE UNCHANGED cacheVars
    BY <1>1, <2>2
  <2>3. CASE WriteHit(b, v)
    <3> DEFINE e == find_cached_entry(b)
    <3>1. /\ ring_buffer' = [ring_buffer EXCEPT ![e].content = v, ![e].is_dirty = TRUE]
          /\ UNCHANGED <<cache_size, next_insert_pos>> /\ Used' = Used
      BY <2>3 DEF WriteHit, Used, Capacity
    <3>2. ring_buffer \in [Slots -> Entry]
      BY DEF IInv, TypeOK
    <3> HIDE DEF e
    <3>3. \A i \in Slots : ring_buffer'[i].block_id = ring_buffer[i].block_id
      BY <3>1, <3>2 DEF Entry
    <3>4. /\ FifoOrder \in Seq(PassedIds \cup {NoBlock}) /\ Len(FifoOrder) = Used
          /\ FifoOrder' \in Seq(PassedIds \cup {NoBlock}) /\ Len(FifoOrder') = Used
      BY <3>1, FifoOrderBySlots, FifoOrderBySlotsNext DEF FifoIsBySlots
    <3>5. ASSUME NEW k \in 1 .. Used
          PROVE  FifoOrder'[k] = FifoOrder[k]
      <4>1. FifoSlot(k)' = FifoSlot(k)
        BY <3>1 DEF FifoSlot, OldestSlot, Capacity
      <4>2. QED
        BY <3>1, <3>3, <4>1, FifoOrderBySlots, FifoOrderBySlotsNext DEF FifoIsBySlots
    <3>6. FifoOrder' = FifoOrder
      BY <3>4, <3>5, SeqEqual
    <3>7. QED
      BY <3>6
  <2>4. QED
    BY <2>1, <2>2, <2>3 DEF mydisk_write_block, WriteInvalid, WriteFile
<1>5. CASE UNCHANGED vars
  BY <1>1, <1>5 DEF vars, cacheVars
<1>6. QED
  BY <1>2, <1>3, <1>4, <1>5 DEF Next

(* Spec => FifoReplacement: the entry a miss takes over is the one cached   *)
(* longest ago, for every size of the ring.                                *)
THEOREM OldestIsReplacedFirst == Spec => FifoReplacement
<1>1. IInv /\ IInv' /\ [Next]_vars => [OldestIsReplaced]_vars
  BY StepReplacesOldest
<1>2. QED
  BY <1>1, InvariantHolds, PTL DEF Spec, FifoReplacement
-----------------------------------------------------------------------------
(***************************************************************************)
(* While stdio does not fail, the disk with its cache implements the plain *)
(* store of blocks BlockStore, under the refinement mapping Contents.  The *)
(* argument is IInv: each block has one current value, its cached copy or  *)
(* else its place in the file, and a step that moves the value from one to *)
(* the other does not change it.                                           *)
(***************************************************************************)

(* Contents without the search: the entry for a block if there is one, and *)
(* the file if there is none.                                              *)
ContentsAreCacheOverDisk ==
    \A b \in Blocks :
        /\ \A i \in Slots : ring_buffer[i].block_id = b => Contents[b] = ring_buffer[i].content
        /\ (\A i \in Slots : ring_buffer[i].block_id # b) => Contents[b] = disk[b]

LEMMA BlocksAreFileBlocks == Blocks \subseteq FileBlocks /\ NoBlock \notin FileBlocks
BY MaxBlocksAssumption DEF Blocks, FileBlocks, NoBlock

LEMMA ContentsShape == IInv => ContentsAreCacheOverDisk
<1> SUFFICES ASSUME IInv, NEW b \in Blocks
             PROVE /\ \A i \in Slots : ring_buffer[i].block_id = b
                                         => Contents[b] = ring_buffer[i].content
                   /\ (\A i \in Slots : ring_buffer[i].block_id # b) => Contents[b] = disk[b]
  BY DEF ContentsAreCacheOverDisk
<1>1. Contents[b] = IF Cached(b) THEN ring_buffer[find_cached_entry(b)].content ELSE disk[b]
  BY DEF Contents
<1>2. b \in FileBlocks
  BY BlocksAreFileBlocks
<1>3. QED
  BY <1>1, <1>2, FindFindsTheBlock DEF IInv

LEMMA ContentsShapeNext == IInv' => ContentsAreCacheOverDisk'
BY ContentsShape, PTL

(* Two contents that agree on every block are equal. *)
LEMMA SameContents ==
    /\ (\A b \in Blocks : Contents'[b] = Contents[b]) => Contents' = Contents
    /\ \A f \in [Blocks -> Data \cup {Absent}] :
          (\A b \in Blocks : Contents'[b] = f[b]) => Contents' = f
BY DEF Contents

(* An empty ring: the contents are the file. *)
LEMMA EmptyRingContents ==
    ASSUME IInv, cache_size = 0
    PROVE  \A b \in Blocks : Contents[b] = disk[b]
<1>1. \A i \in Slots : ring_buffer[i].block_id = NoBlock
  BY CacheBlocksAssumption DEF IInv, RingShape, Used, Capacity, Slots
<1>2. QED
  BY <1>1, BlocksAreFileBlocks, ContentsShape DEF ContentsAreCacheOverDisk

LEMMA EmptyRingContentsNext ==
    ASSUME IInv', cache_size' = 0
    PROVE  \A b \in Blocks : Contents'[b] = disk'[b]
<1>1. (IInv /\ cache_size = 0 => \A b \in Blocks : Contents[b] = disk[b])'
  BY EmptyRingContents, PTL
<1>2. QED
  BY <1>1

LEMMA QuietKeepsContents ==
    ASSUME UNCHANGED <<disk, cacheVars>>
    PROVE  Contents' = Contents
BY DEF Contents, Cached, find_cached_entry, cacheVars

LEMMA InitImplementsStore == Init => Store!Init
<1> SUFFICES ASSUME Init PROVE Store!Init
  OBVIOUS
<1>1. IInv /\ cache_size = 0 /\ disk = [b \in FileBlocks |-> Absent]
  BY InitEstablishesIInv DEF Init
<1>2. \A b \in Blocks : Contents[b] = Absent
  BY <1>1, EmptyRingContents, BlocksAreFileBlocks
<1>3. Contents = [b \in Blocks |-> Absent]
  BY <1>2 DEF Contents
<1>4. QED
  BY <1>3 DEF Init, Store!Init, Store!Blocks, Blocks

(* close_cache leaves in the file what a reader saw through the cache. *)
LEMMA CloseWritesBack ==
    ASSUME ~IOFails, IInv, close_cache, NEW b \in Blocks
    PROVE  disk'[b] = Contents[b]
<1> USE CacheBlocksAssumption DEF Flushed
<1>1. PICK wrote \in [0 .. cache_size - 1 -> IOOutcomes] :
        LET written == {i \in Flushed : wrote[i]}
            To(c) == {i \in written : ring_buffer[i].block_id = c}
            Above(c) == {i \in written : ring_buffer[i].block_id > c}
        IN  disk' = [c \in FileBlocks |->
                       IF To(c) # {} THEN ring_buffer[CHOOSE i \in To(c) : TRUE].content
                       ELSE IF Above(c) # {} /\ disk[c] = Absent THEN Zero
                       ELSE disk[c]]
  BY DEF close_cache
<1> DEFINE written == {i \in Flushed : wrote[i]}
           To(c) == {i \in written : ring_buffer[i].block_id = c}
           Above(c) == {i \in written : ring_buffer[i].block_id > c}
<1>2. disk[b] # Absent
  BY DEF close_cache, IInv, DiskCoherent
<1>3. disk'[b] = IF To(b) # {} THEN ring_buffer[CHOOSE i \in To(b) : TRUE].content
                 ELSE disk[b]
  BY <1>1, <1>2, BlocksAreFileBlocks
<1>4. \A i \in 0 .. cache_size - 1 : wrote[i]
  BY DEF IOOutcomes
<1>5. CASE To(b) # {}
  <2>1. (CHOOSE i \in To(b) : TRUE) \in To(b)
    BY <1>5
  <2>2. PICK i \in 0 .. cache_size - 1 :
           ring_buffer[i].block_id = b /\ disk'[b] = ring_buffer[i].content
    BY <1>3, <1>5, <2>1
  <2>3. i \in Slots
    BY <2>2 DEF IInv, TypeOK, Slots
  <2>4. QED
    BY <2>2, <2>3, ContentsShape DEF ContentsAreCacheOverDisk
<1>6. CASE To(b) = {}
  <2>1. disk'[b] = disk[b]
    BY <1>3, <1>6
  <2>2. ASSUME NEW i \in Slots, ring_buffer[i].block_id = b
        PROVE  ring_buffer[i].content = disk[b]
    <3>1. i < cache_size /\ i \in 0 .. cache_size - 1
      BY <2>2, BlocksAreFileBlocks, BlocksAreSearched DEF IInv, TypeOK, Slots
    <3>2. ~ring_buffer[i].is_dirty
      BY <1>4, <1>6, <2>2, <3>1
    <3>3. QED
      BY <2>2, <3>1, <3>2 DEF IInv, DiskCoherent
  <2>3. QED
    BY <2>1, <2>2, ContentsShape DEF ContentsAreCacheOverDisk
<1>7. QED
  BY <1>5, <1>6

(* Opening and closing the disk and the cache. *)
LEMMA ManageImplementsStore ==
    ASSUME ~IOFails, IInv, IInv',
           mydisk_init \/ mydisk_close \/ init_cache \/ close_cache
    PROVE  Store!Next
<1>1. CASE mydisk_init
  <2>1. cache_size' = 0
    BY <1>1 DEF mydisk_init, IInv, DiskCoherent, RingShape, cacheVars
  <2>2. \A b \in Blocks : Contents'[b] = disk'[b]
    BY <2>1, EmptyRingContentsNext
  <2>3. /\ disk' = [b \in FileBlocks |-> IF b \in Blocks THEN Zero ELSE Absent]
        /\ Return("mydisk_init", 0, 0, Absent)
    BY <1>1 DEF mydisk_init
  <2>4. \A b \in Blocks : Contents'[b] = Zero
    BY <2>2, <2>3, BlocksAreFileBlocks
  <2>5. Contents' = [b \in Blocks |-> Zero]
    BY <2>4 DEF Contents
  <2>6. Store!Create
    BY <2>3, <2>5 DEF Store!Create, Store!Answer, Store!Blocks, Return, Blocks
  <2>7. QED
    BY <2>6 DEF Store!Next
<1>2. CASE mydisk_close
  <2>1. Contents' = Contents
    BY <1>2, QuietKeepsContents DEF mydisk_close
  <2>2. Store!Manage
    BY <1>2, <2>1 DEF mydisk_close, Store!Manage, Store!Answer, Return
  <2>3. QED
    BY <2>2 DEF Store!Next
<1>3. CASE init_cache
  <2>1. cache_size = 0 /\ cache_size' = 0 /\ disk' = disk
    BY <1>3 DEF init_cache, IInv, RingShape
  <2>2. \A b \in Blocks : Contents'[b] = Contents[b]
    BY <2>1, EmptyRingContents, EmptyRingContentsNext
  <2>3. Contents' = Contents
    BY <2>2, SameContents
  <2>4. Store!Manage
    BY <1>3, <2>3 DEF init_cache, Store!Manage, Store!Answer, Return
  <2>5. QED
    BY <2>4 DEF Store!Next
<1>4. CASE close_cache
  <2>1. \A b \in Blocks : Contents'[b] = disk'[b]
    BY <1>4, EmptyRingContentsNext DEF close_cache
  <2>2. ASSUME NEW b \in Blocks PROVE disk'[b] = Contents[b]
    BY <1>4, CloseWritesBack
  <2>3. Contents' = Contents
    BY <2>1, <2>2, SameContents
  <2>4. Store!Manage
    BY <1>4, <2>3 DEF close_cache, Store!Manage, Store!Answer, Return
  <2>5. QED
    BY <2>4 DEF Store!Next
<1>5. QED
  BY <1>1, <1>2, <1>3, <1>4

(* The three answers of the store, in the words of the implementation. *)
LEMMA ReadAnswer ==
    ASSUME Contents' = Contents, NEW b \in Blocks, NEW ret \in {0, -1},
           Return("mydisk_read_block", b, ret, Contents[b])
    PROVE  Store!Next
<1>1. b \in Store!Blocks /\ Store!Read(b)
  BY DEF Store!Read, Store!Answer, Store!Blocks, Return, Blocks
<1>2. QED
  BY <1>1 DEF Store!Next

LEMMA WriteAnswer ==
    ASSUME NEW b \in Blocks, NEW v \in Data, NEW ret \in {0, -1},
           Contents'[b] = v, \A c \in Blocks : c # b => Contents'[c] = Contents[c],
           Return("mydisk_write_block", b, ret, v)
    PROVE  Store!Next
<1>1. Contents' = [Contents EXCEPT ![b] = v]
  BY DEF Contents
<1>2. b \in Store!Blocks /\ Store!Write(b, v)
  BY <1>1 DEF Store!Write, Store!Answer, Store!Blocks, Return, Blocks
<1>3. QED
  BY <1>2 DEF Store!Next

LEMMA RefuseAnswer ==
    ASSUME Contents' = Contents, NEW b \in BlockIds, b \notin Blocks,
           NEW op \in {"mydisk_read_block", "mydisk_write_block"},
           NEW ret \in {-1, 0, 1}, NEW v \in Data \cup {Absent},
           Return(op, b, ret, v)
    PROVE  Store!Next
<1>1. b \in BlockIds \ Store!Blocks
  BY DEF Store!Blocks, Blocks
<1>2. Store!Refuse(b)
  BY DEF Store!Refuse, Store!Answer, Return
<1>3. QED
  BY <1>1, <1>2 DEF Store!Next

LEMMA QuietCallsImplementStore ==
    ASSUME ~IOFails, IInv, NEW b \in BlockIds, NEW v \in Data,
           ReadInvalid(b) \/ ReadDirect(b) \/ ReadHit(b) \/ WriteInvalid(b, v)
    PROVE  Store!Next
<1> USE MaxBlocksAssumption
<1>1. Contents' = Contents
  <2>1. UNCHANGED <<disk, cacheVars>>
    BY DEF ReadInvalid, ReadDirect, ReadHit, WriteInvalid
  <2>2. QED
    BY <2>1, QuietKeepsContents
<1>2. CASE ReadInvalid(b)
  BY <1>1, <1>2, IdsOfTheFile, RefuseAnswer DEF ReadInvalid, Blocks
<1>3. CASE ReadDirect(b)
  <2>1. b \in PassedIds /\ (b >= 0 => disk[b] \in Data \cup {Absent})
    BY <1>3, IdsOfTheFile DEF ReadDirect, IInv, TypeOK
  <2>2. IF b >= 0 /\ disk[b] # Absent THEN Return("mydisk_read_block", b, 0, disk[b])
                                      ELSE Return("mydisk_read_block", b, 1, Absent)
    BY <1>3 DEF ReadDirect, IOOutcomes
  <2>3. CASE b \in Blocks
    <3>1. disk[b] # Absent /\ b >= 0
      BY <1>3, <2>3 DEF ReadDirect, IInv, DiskCoherent, Blocks
    <3>2. CASE cache_enabled
      BY <1>3, <3>2 DEF ReadDirect
    <3>3. CASE ~cache_enabled
      <4>1. Contents[b] = disk[b]
        BY <2>3, <3>3, EmptyRingContents DEF IInv, RingShape
      <4>2. QED
        BY <1>1, <2>2, <2>3, <3>1, <4>1, ReadAnswer
    <3>4. QED
      BY <3>2, <3>3
  <2>4. CASE b \notin Blocks
    BY <1>1, <2>1, <2>2, <2>4, RefuseAnswer
  <2>5. QED
    BY <2>3, <2>4
<1>4. CASE ReadHit(b)
  <2>1. b \in PassedIds /\ Cached(b)
    BY <1>4, IdsOfTheFile DEF ReadHit
  <2>2. find_cached_entry(b) \in Slots /\ ring_buffer[find_cached_entry(b)].content \in Data
    BY <2>1, FindFindsTheEntry DEF IInv, TypeOK, Entry
  <2>3. Return("mydisk_read_block", b, -1, ring_buffer[find_cached_entry(b)].content)
    BY <1>4 DEF ReadHit
  <2>4. CASE b \in Blocks
    <3>1. Contents[b] = ring_buffer[find_cached_entry(b)].content
      BY <2>1, <2>4 DEF Contents
    <3>2. QED
      BY <1>1, <2>3, <2>4, <3>1, ReadAnswer
  <2>5. CASE b \notin Blocks
    BY <1>1, <2>2, <2>3, <2>5, RefuseAnswer
  <2>6. QED
    BY <2>4, <2>5
<1>5. CASE WriteInvalid(b, v)
  BY <1>1, <1>5, IdsOfTheFile, RefuseAnswer DEF WriteInvalid, Blocks
<1>6. QED
  BY <1>2, <1>3, <1>4, <1>5

(* A write to the file: the block is not cached, so its place in the file  *)
(* is its value.                                                           *)
LEMMA WriteFileImplementsStore ==
    ASSUME ~IOFails, IInv, IInv', NEW b \in BlockIds, NEW v \in Data, WriteFile(b, v)
    PROVE  Store!Next
<1>1. b \in PassedIds /\ b \in Int
  BY IdsOfTheFile DEF WriteFile
<1>2. /\ Return("mydisk_write_block", b, IF b >= 0 THEN 0 ELSE 1, v)
      /\ UNCHANGED <<disk_open, cacheVars>>
      /\ \A c \in Blocks : disk[c] # Absent
  BY DEF WriteFile, IOOutcomes, IInv, DiskCoherent
<1>3. /\ b \in FileBlocks => disk'[b] = v
      /\ \A c \in Blocks : c # b => disk'[c] = disk[c]
  <2>1. disk' = FileWrite(disk, b, v, TRUE)
    BY DEF WriteFile, IOOutcomes
  <2>2. disk \in [FileBlocks -> Data \cup {Absent}] /\ b \in PassedIds \cup {NoBlock}
    BY <1>1 DEF IInv, TypeOK
  <2>3. /\ b \in FileBlocks => FileWrite(disk, b, v, TRUE)[b] = v
        /\ \A i \in FileBlocks : i # b /\ disk[i] # Absent =>
              FileWrite(disk, b, v, TRUE)[i] = disk[i]
    BY <2>2, GoodWriteEffect
  <2>4. \A c \in Blocks : c \in FileBlocks /\ disk[c] # Absent
    BY <1>2, BlocksAreFileBlocks
  <2>5. QED
    BY <2>1, <2>3, <2>4
<1>4. b \in FileBlocks => \A i \in Slots : ring_buffer[i].block_id # b
  <2>1. CASE ~cache_enabled
    BY <2>1, BlocksAreSearched, CacheBlocksAssumption DEF IInv, RingShape, Slots
  <2>2. CASE ~Cached(b)
    BY <1>1, <2>2, FindFindsTheBlock DEF IInv
  <2>3. QED
    BY <2>1, <2>2 DEF WriteFile
<1>5. ring_buffer' = ring_buffer
  BY <1>2 DEF cacheVars
<1>6. \A c \in Blocks : c # b => Contents'[c] = Contents[c]
  BY <1>3, <1>5, ContentsShape, ContentsShapeNext DEF ContentsAreCacheOverDisk
<1>7. CASE b \in Blocks
  <2>1. b \in FileBlocks /\ b >= 0
    BY <1>7, BlocksAreFileBlocks DEF Blocks
  <2>2. Contents'[b] = v
    BY <1>3, <1>4, <1>5, <1>7, <2>1, ContentsShapeNext DEF ContentsAreCacheOverDisk
  <2>3. QED
    BY <1>2, <1>6, <1>7, <2>1, <2>2, WriteAnswer
<1>8. CASE b \notin Blocks
  <2>1. Contents' = Contents
    BY <1>6, <1>8, SameContents
  <2>2. (IF b >= 0 THEN 0 ELSE 1) \in {-1, 0, 1} /\ v \in Data \cup {Absent}
    OBVIOUS
  <2>3. QED
    BY <1>2, <1>8, <2>1, <2>2, RefuseAnswer
<1>9. QED
  BY <1>7, <1>8

LEMMA WriteHitImplementsStore ==
    ASSUME ~IOFails, IInv, IInv', NEW b \in BlockIds, NEW v \in Data, WriteHit(b, v)
    PROVE  Store!Next
<1> DEFINE e == find_cached_entry(b)
<1>1. b \in PassedIds /\ Cached(b)
  BY IdsOfTheFile DEF WriteHit
<1>2. e \in Slots /\ ring_buffer[e].block_id = b
  BY <1>1, FindFindsTheEntry DEF IInv
<1>4. /\ ring_buffer' = [ring_buffer EXCEPT ![e].content = v, ![e].is_dirty = TRUE]
      /\ disk' = disk
      /\ Return("mydisk_write_block", b, -1, v)
  BY DEF WriteHit
<1> HIDE DEF e
<1>5. ring_buffer \in [Slots -> Entry]
  BY DEF IInv, TypeOK
<1>6. /\ \A i \in Slots : ring_buffer'[i].block_id = ring_buffer[i].block_id
      /\ \A i \in Slots : i # e => ring_buffer'[i] = ring_buffer[i]
      /\ ring_buffer'[e].content = v
  BY <1>2, <1>4, <1>5 DEF Entry
<1>7. \A c \in Blocks : c # b => Contents'[c] = Contents[c]
  <2>1. SUFFICES ASSUME NEW c \in Blocks, c # b PROVE Contents'[c] = Contents[c]
    OBVIOUS
  <2>2. CASE \E i \in Slots : ring_buffer[i].block_id = c
    BY <1>2, <1>6, <2>1, <2>2, ContentsShape, ContentsShapeNext DEF ContentsAreCacheOverDisk
  <2>3. CASE \A i \in Slots : ring_buffer[i].block_id # c
    <3>1. \A i \in Slots : ring_buffer'[i].block_id # c
      BY <1>6, <2>3
    <3>2. Contents[c] = disk[c] /\ Contents'[c] = disk'[c]
      BY <2>3, <3>1, ContentsShape, ContentsShapeNext DEF ContentsAreCacheOverDisk
    <3>3. QED
      BY <1>4, <3>2
  <2>4. QED
    BY <2>2, <2>3
<1>8. CASE b \in Blocks
  <2>1. Contents'[b] = v
    BY <1>2, <1>6, <1>8, ContentsShapeNext DEF ContentsAreCacheOverDisk
  <2>2. QED
    BY <1>4, <1>7, <1>8, <2>1, WriteAnswer
<1>9. CASE b \notin Blocks
  <2>1. Contents' = Contents
    BY <1>7, <1>9, SameContents
  <2>2. QED
    BY <1>4, <1>9, <2>1, RefuseAnswer
<1>10. QED
  BY <1>8, <1>9

(* A miss: the value of the evicted block moves from the ring to the file, *)
(* and the value of the block read from the file to the ring.              *)
LEMMA ReadMissImplementsStore ==
    ASSUME ~IOFails, IInv, IInv', NEW b \in BlockIds, ReadMiss(b)
    PROVE  Store!Next
<1> USE CacheBlocksAssumption, MaxBlocksAssumption
<1> DEFINE pos == next_insert_pos
           victim == ring_buffer[next_insert_pos]
<1>1. b \in PassedIds /\ b \in Int /\ cache_enabled /\ disk_open /\ ~Cached(b)
  BY IdsOfTheFile DEF ReadMiss
<1>2. PICK wrote \in IOOutcomes, got \in IOOutcomes : create_cached_block(b, wrote, got)
  BY DEF ReadMiss
<1> DEFINE file == IF victim.is_dirty
                   THEN FileWrite(disk, victim.block_id, victim.content, TRUE)
                   ELSE disk
           content == IF b >= 0 /\ file[b] # Absent THEN file[b] ELSE Zero
<1>3. wrote = TRUE /\ got = TRUE
  BY DEF IOOutcomes
<1>4. /\ disk' = file
      /\ ring_buffer' = [ring_buffer EXCEPT ![pos] =
             [block_id |-> b, is_dirty |-> FALSE, content |-> content]]
      /\ IF b >= 0 /\ file[b] # Absent THEN Return("mydisk_read_block", b, 0, file[b])
                                       ELSE Return("mydisk_read_block", b, 1, Absent)
  BY <1>2, <1>3 DEF create_cached_block, WriteBack, NewEntry
<1>5. /\ pos \in Slots /\ victim \in Entry
      /\ ring_buffer \in [Slots -> Entry]
      /\ disk \in [FileBlocks -> Data \cup {Absent}]
  BY DEF IInv, TypeOK
<1>6. b \in FileBlocks => \A i \in Slots : ring_buffer[i].block_id # b
  BY <1>1, FindFindsTheBlock DEF IInv
<1>7. victim.block_id \in PassedIds \cup {NoBlock} /\ victim.content \in Data
  BY <1>5, EntriesAreTyped DEF IInv
<1>8. /\ victim.is_dirty /\ victim.block_id \in FileBlocks =>
            file[victim.block_id] = victim.content
      /\ \A i \in FileBlocks : i # victim.block_id /\ disk[i] # Absent => file[i] = disk[i]
      /\ ~victim.is_dirty => file = disk
  <2>1. CASE victim.is_dirty
    <3>1. file = FileWrite(disk, victim.block_id, victim.content, TRUE)
      BY <2>1
    <3> HIDE DEF file, victim
    <3>2. /\ victim.block_id \in FileBlocks =>
                FileWrite(disk, victim.block_id, victim.content, TRUE)[victim.block_id]
                    = victim.content
          /\ \A i \in FileBlocks : i # victim.block_id /\ disk[i] # Absent =>
                FileWrite(disk, victim.block_id, victim.content, TRUE)[i] = disk[i]
      BY <1>5, <1>7, GoodWriteEffect
    <3>3. QED
      BY <2>1, <3>1, <3>2
  <2>2. CASE ~victim.is_dirty
    BY <2>2
  <2>3. QED
    BY <2>1, <2>2
<1>9. file \in [FileBlocks -> Data \cup {Absent}]
  BY <1>4 DEF IInv, TypeOK
<1> HIDE DEF file
<1>10. /\ \A i \in Slots : i # pos => ring_buffer'[i] = ring_buffer[i]
       /\ ring_buffer'[pos].block_id = b /\ ring_buffer'[pos].content = content
  BY <1>4, <1>5
<1>11. \A c \in Blocks : c \in FileBlocks /\ disk[c] # Absent
  BY <1>1, BlocksAreFileBlocks DEF IInv, DiskCoherent
<1>12. victim.block_id \in Blocks => file[victim.block_id] = victim.content
  <2>1. victim.block_id \in Blocks => pos < cache_size /\ victim.block_id \in FileBlocks
    BY <1>5, BlocksAreFileBlocks, BlocksAreSearched DEF IInv
  <2>2. victim.block_id \in Blocks /\ ~victim.is_dirty
          => victim.content = disk[victim.block_id]
    BY <1>5, <2>1 DEF IInv, DiskCoherent
  <2> HIDE DEF victim
  <2>3. victim.block_id \in Blocks => victim.block_id \in FileBlocks
    BY BlocksAreFileBlocks
  <2>4. CASE victim.is_dirty
    BY <1>8, <2>3, <2>4
  <2>5. CASE ~victim.is_dirty
    BY <1>8, <2>2, <2>5
  <2>6. QED
    BY <2>4, <2>5
<1>13. ASSUME NEW c \in Blocks PROVE Contents'[c] = Contents[c]
  <2>1. CASE c = b
    <3>1. b # victim.block_id /\ b >= 0 /\ \A i \in Slots : ring_buffer[i].block_id # b
      BY <1>5, <1>6, <2>1, BlocksAreFileBlocks DEF Blocks
    <3>2. content = disk[b]
      BY <1>8, <1>11, <2>1, <3>1
    <3>3. Contents[b] = disk[b]
      BY <2>1, <3>1, ContentsShape DEF ContentsAreCacheOverDisk
    <3>4. Contents'[b] = content
      BY <1>5, <1>10, <2>1, ContentsShapeNext DEF ContentsAreCacheOverDisk
    <3>5. QED
      BY <2>1, <3>2, <3>3, <3>4
  <2>2. CASE c # b /\ c = victim.block_id
    <3>1. Contents[c] = victim.content
      BY <1>5, <2>2, ContentsShape DEF ContentsAreCacheOverDisk
    <3>2. \A i \in Slots : ring_buffer'[i].block_id # c
      <4>1. SUFFICES ASSUME NEW i \in Slots, i # pos
                     PROVE  ring_buffer[i].block_id # c
        BY <1>10, <2>2
      <4>2. pos < cache_size
        BY <1>5, <2>2, BlocksAreFileBlocks, BlocksAreSearched DEF IInv
      <4>3. pos < i \/ i < pos
        BY <1>5, <4>1 DEF Slots
      <4>4. ring_buffer[i].block_id = c => i < cache_size
        BY BlocksAreFileBlocks, BlocksAreSearched DEF IInv
      <4>5. QED
        BY <1>5, <2>2, <4>2, <4>3, <4>4 DEF IInv, RingShape
    <3>3. Contents'[c] = disk'[c]
      BY <3>2, ContentsShapeNext DEF ContentsAreCacheOverDisk
    <3>4. QED
      BY <1>4, <1>12, <2>2, <3>1, <3>3
  <2>3. CASE c # b /\ c # victim.block_id
    <3>1. disk'[c] = disk[c]
      BY <1>4, <1>8, <1>11, <2>3
    <3>2. CASE \E i \in Slots : ring_buffer[i].block_id = c
      <4>1. PICK i \in Slots : ring_buffer[i].block_id = c
        BY <3>2
      <4>2. ring_buffer'[i] = ring_buffer[i]
        BY <1>10, <2>3, <4>1
      <4>3. QED
        BY <4>1, <4>2, ContentsShape, ContentsShapeNext DEF ContentsAreCacheOverDisk
    <3>3. CASE \A i \in Slots : ring_buffer[i].block_id # c
      <4>1. \A i \in Slots : ring_buffer'[i].block_id # c
        BY <1>10, <2>3, <3>3
      <4>2. Contents[c] = disk[c] /\ Contents'[c] = disk'[c]
        BY <3>3, <4>1, ContentsShape, ContentsShapeNext DEF ContentsAreCacheOverDisk
      <4>3. QED
        BY <3>1, <4>2
    <3>4. QED
      BY <3>2, <3>3
  <2>4. QED
    BY <2>1, <2>2, <2>3
<1>14. Contents' = Contents
  BY <1>13, SameContents
<1>15. CASE b \in Blocks
  <2>0. b >= 0 /\ \A i \in Slots : ring_buffer[i].block_id # b
    BY <1>6, <1>15, BlocksAreFileBlocks DEF Blocks
  <2>1. file[b] = disk[b] /\ file[b] # Absent /\ b >= 0
    BY <1>5, <1>8, <1>11, <1>15, <2>0
  <2>2. Contents[b] = disk[b]
    BY <1>15, <2>0, ContentsShape DEF ContentsAreCacheOverDisk
  <2>3. QED
    BY <1>4, <1>14, <1>15, <2>1, <2>2, ReadAnswer
<1>16. CASE b \notin Blocks
  <2>1. b >= 0 => file[b] \in Data \cup {Absent}
    BY <1>1, <1>9, IdsOfTheFile
  <2>2. QED
    BY <1>4, <1>14, <1>16, <2>1, RefuseAnswer
<1>17. QED
  BY <1>15, <1>16

LEMMA NextImplementsStore ==
    ASSUME ~IOFails, IInv, IInv', [Next]_vars
    PROVE  [Store!Next]_<<Contents, result>>
<1>1. CASE mydisk_init \/ mydisk_close \/ init_cache \/ close_cache
  BY <1>1, ManageImplementsStore
<1>2. CASE \E b \in BlockIds : mydisk_read_block(b)
  <2>1. PICK b \in BlockIds : mydisk_read_block(b)
    BY <1>2
  <2>2. CASE ReadInvalid(b) \/ ReadDirect(b) \/ ReadHit(b)
    BY <2>2, DataAssumption, QuietCallsImplementStore
  <2>3. CASE ReadMiss(b)
    BY <2>3, ReadMissImplementsStore
  <2>4. QED
    BY <2>1, <2>2, <2>3 DEF mydisk_read_block
<1>3. CASE \E b \in BlockIds, v \in Data : mydisk_write_block(b, v)
  <2>1. PICK b \in BlockIds, v \in Data : mydisk_write_block(b, v)
    BY <1>3
  <2>2. QED
    BY <2>1, QuietCallsImplementStore, WriteFileImplementsStore, WriteHitImplementsStore
       DEF mydisk_write_block
<1>4. CASE UNCHANGED vars
  <2>1. Contents' = Contents /\ result' = result
    BY <1>4, QuietKeepsContents DEF vars
  <2>2. QED
    BY <2>1
<1>5. QED
  BY <1>1, <1>2, <1>3, <1>4 DEF Next

(* For every disk and every cache of two blocks or more, while the calls of *)
(* stdio succeed: each call of the block layer answers as the plain array  *)
(* of blocks would, whatever was cached, evicted or written back before.   *)
THEOREM BlockCacheImplementsStore ==
    ASSUME ~IOFails
    PROVE  Spec => ImplementsStore
<1>1. IInv /\ IInv' /\ [Next]_vars => [Store!Next]_<<Contents, result>>
  BY NextImplementsStore
<1>2. QED
  BY <1>1, InitImplementsStore, InvariantHolds, PTL DEF Spec, ImplementsStore, Store!Spec
-----------------------------------------------------------------------------
(***************************************************************************)
(* mydisk_read and mydisk_write for every disk, every size of block and    *)
(* every range of bytes, while stdio does not fail.  Three results: the loop *)
(* names valid blocks and stays at its place in the call, it charges each  *)
(* block once, and the whole is one flat array of bytes.  All rest on      *)
(* ByteInv: the invariant of the block layer, and where the loop of the call *)
(* in progress is.                                                         *)
(***************************************************************************)

(* The locals of a call have these values.                                 *)
Buffers == UNION {[0 .. n - 1 -> Bytes] : n \in Nat}
Loops ==
    [block_id : Nat, remaining : Nat, offset : 0 .. BlockSize - 1, bytes_completed : Nat,
     temp_buffer : Data, merging : BOOLEAN, copied : Buffers,
     read_hit : Nat, read_miss : Nat, write_hit : Nat, write_miss : Nat]

(* The check at the head of both calls has accepted the arguments.         *)
ArgumentsInRange ==
    /\ call.op \in {"read", "write"} /\ call.start \in Nat /\ call.nbytes \in Nat
    /\ call.start + call.nbytes < CapacityInBytes
    /\ call.op = "write" => call.buffer \in [0 .. call.nbytes - 1 -> Bytes]

(* The block and the offset in it are where the bytes done so far end.     *)
LoopAtItsPlace ==
    /\ loop.remaining + loop.bytes_completed = call.nbytes
    /\ loop.remaining # 0 =>
          loop.block_id * BlockSize + loop.offset = call.start + loop.bytes_completed
    /\ loop.merging => call.op = "write" /\ loop.remaining # 0 /\ Amount # BlockSize
    /\ call.op = "read" => loop.copied \in [0 .. loop.bytes_completed - 1 -> Bytes]

CallInv == call # Idle => ArgumentsInRange /\ LoopAtItsPlace /\ disk_open

ByteInv == IInv /\ loop \in Loops /\ CallInv /\ (call = Idle => ~loop.merging)

-----------------------------------------------------------------------------
LEMMA Constants ==
    /\ BlockSize \in Nat \ {0} /\ MaxBlocks \in Nat \ {0} /\ ~IOFails
    /\ ZeroByte \in Bytes /\ Data = [0 .. BlockSize - 1 -> Bytes]
    /\ Zero = [i \in 0 .. BlockSize - 1 |-> ZeroByte] /\ Zero \in Data
    /\ CapacityInBytes = MaxBlocks * BlockSize /\ CapacityInBytes \in Nat
    /\ Blocks \subseteq BlockIds
BY BlocksOfBytes, MaxBlocksAssumption, ArgumentsAssumption, DataAssumption,
   BlockIdsAssumption DEF Block, CapacityInBytes, Blocks

(* Products keep the order of their factors. *)
LEMMA TimesInOrder ==
    ASSUME NEW n \in Nat, NEW a \in Int, NEW b \in Int, a <= b
    PROVE  a * n <= b * n
  OBVIOUS

(* The call of an iteration: it names a valid block, stays within it and   *)
(* does not pass the end of the call; if bytes are left, it reaches the    *)
(* end of the block.                                                       *)
LEMMA IterationInBlock ==
    ASSUME ByteInv, call # Idle, loop.remaining # 0
    PROVE  /\ loop.block_id \in Blocks
           /\ Amount \in 1 .. BlockSize /\ Amount <= loop.remaining
           /\ loop.offset + Amount <= BlockSize
           /\ loop.remaining # Amount => loop.offset + Amount = BlockSize
<1> DEFINE n == BlockSize
           b == loop.block_id
           rest == loop.remaining
           off == loop.offset
           done == loop.bytes_completed
           from == call.start
<1>1. /\ b \in Nat /\ rest \in Nat \ {0} /\ off \in 0 .. n - 1 /\ done \in Nat
      /\ from \in Nat /\ from + call.nbytes < MaxBlocks * n /\ call.nbytes = rest + done
      /\ b * n + off = from + done /\ n \in Nat \ {0} /\ MaxBlocks \in Nat
  BY Constants DEF ByteInv, CallInv, ArgumentsInRange, LoopAtItsPlace, Loops
<1>2. Amount = IF rest + off >= n THEN n - off ELSE rest
  BY DEF Amount
<1> HIDE DEF n, b, rest, off, done, from
<1>3. b < MaxBlocks
  <2>1. SUFFICES ASSUME MaxBlocks <= b PROVE FALSE
    BY <1>1
  <2>2. MaxBlocks * n <= b * n
    BY <1>1, <2>1, TimesInOrder
  <2>3. QED
    BY <1>1, <2>2
<1>4. b \in Blocks
  BY <1>1, <1>3 DEF Blocks
<1>5. Amount \in 1 .. n /\ Amount <= rest /\ off + Amount <= n
      /\ (rest # Amount => off + Amount = n)
  BY <1>1, <1>2
<1>6. QED
  BY <1>4, <1>5 DEF n, b, rest, off

(* What a call of the block layer on a valid block does to the contents.   *)
LEMMA ReadBlock ==
    ASSUME IInv, IInv', disk_open, NEW b \in Blocks, mydisk_read_block(b)
    PROVE  /\ Contents' = Contents /\ disk_open' /\ Contents[b] \in Data
           /\ result'.buffer = Contents[b] /\ result'.ret \in {0, -1}
<1>1. b \in BlockIds /\ ~IOFails
  BY Constants
<1>2. Store!Next
  BY <1>1, DataAssumption, QuietCallsImplementStore, ReadMissImplementsStore
     DEF mydisk_read_block
<1>3. result'.call = "mydisk_read_block" /\ result'.block_id = b /\ disk_open'
  <2>1. CASE ReadMiss(b)
    BY <1>1, <2>1, MissEffect DEF ReadMiss
  <2>2. CASE ReadInvalid(b)
    BY <2>2 DEF ReadInvalid, Return
  <2>3. CASE ReadDirect(b)
    BY <2>3 DEF ReadDirect, Return
  <2>4. CASE ReadHit(b)
    BY <2>4 DEF ReadHit, Return
  <2>5. QED
    BY <2>1, <2>2, <2>3, <2>4 DEF mydisk_read_block
<1>4. Store!Read(b)
  <2>1. b \in Store!Blocks
    BY DEF Store!Blocks, Blocks
  <2>2. QED
    BY <1>2, <1>3, <2>1 DEF Store!Next, Store!Create, Store!Manage, Store!Read, Store!Write,
                            Store!Refuse, Store!Answer
<1>5. Contents[b] \in Data
  <2>1. b \in FileBlocks /\ disk[b] \in Data
    BY <1>1, BlocksAreFileBlocks DEF IInv, TypeOK, DiskCoherent
  <2>2. \A i \in Slots : ring_buffer[i].content \in Data
    BY DEF IInv, TypeOK, Entry
  <2>3. QED
    BY <2>1, <2>2, ContentsShape DEF ContentsAreCacheOverDisk
<1>6. QED
  BY <1>3, <1>4, <1>5 DEF Store!Read, Store!Answer

(* A write of the block layer changes its block and no other.              *)
LEMMA WriteBlock ==
    ASSUME IInv, IInv', disk_open, NEW b \in Blocks, NEW v \in Data,
           mydisk_write_block(b, v)
    PROVE  /\ Contents' = [Contents EXCEPT ![b] = v] /\ disk_open'
           /\ result'.ret \in {0, -1}
<1>1. b \in BlockIds /\ ~IOFails
  BY Constants
<1>2. Store!Next
  BY <1>1, QuietCallsImplementStore, WriteFileImplementsStore, WriteHitImplementsStore
     DEF mydisk_write_block
<1>3. /\ result'.call = "mydisk_write_block" /\ result'.block_id = b /\ result'.buffer = v
      /\ disk_open'
  <2>1. CASE WriteInvalid(b, v)
    BY <2>1 DEF WriteInvalid, Return
  <2>2. CASE WriteFile(b, v)
    BY <2>2 DEF WriteFile, Return
  <2>3. CASE WriteHit(b, v)
    BY <2>3 DEF WriteHit, Return
  <2>4. QED
    BY <2>1, <2>2, <2>3 DEF mydisk_write_block
<1>4. Store!Write(b, v)
  <2>1. b \in Store!Blocks
    BY DEF Store!Blocks, Blocks
  <2>2. QED
    BY <1>2, <1>3, <2>1 DEF Store!Next, Store!Create, Store!Manage, Store!Read, Store!Write,
                            Store!Refuse, Store!Answer
<1>5. QED
  BY <1>3, <1>4 DEF Store!Write, Store!Answer

(* The block layer keeps its invariant under a call of it. *)
LEMMA BlockCallKeepsIInv ==
    ASSUME IInv, NEW b \in Blocks, NEW v \in Data,
           mydisk_read_block(b) \/ mydisk_write_block(b, v)
    PROVE  IInv'
<1>1. [Next]_vars
  BY Constants DEF Next
<1>2. QED
  BY <1>1, NextKeepsIInv
-----------------------------------------------------------------------------
(* The fields of the locals after the operators that change them. *)
LEMMA NewLoopFields ==
    ASSUME NEW start \in Nat, NEW n \in Nat
    PROVE  /\ NewLoop(start, n) \in Loops
           /\ NewLoop(start, n).remaining = n /\ NewLoop(start, n).bytes_completed = 0
           /\ NewLoop(start, n).block_id = start \div BlockSize
           /\ NewLoop(start, n).offset = start % BlockSize
           /\ ~NewLoop(start, n).merging
           /\ NewLoop(start, n).copied = EmptyBuffer
           /\ NewLoop(start, n).read_hit = 0 /\ NewLoop(start, n).read_miss = 0
           /\ NewLoop(start, n).write_hit = 0 /\ NewLoop(start, n).write_miss = 0
<1> DEFINE q == start \div BlockSize
           r == start % BlockSize
<1>1. q \in Nat /\ r \in 0 .. BlockSize - 1
  BY Constants, Division
<1> HIDE DEF q, r
<1>2. EmptyBuffer \in Buffers
  <2>1. EmptyBuffer \in [0 .. 0 - 1 -> Bytes]
    BY DEF EmptyBuffer
  <2>2. QED
    BY <2>1 DEF Buffers
<1>3. NewLoop(start, n) =
        [block_id |-> q, remaining |-> n, offset |-> r, bytes_completed |-> 0,
         temp_buffer |-> Zero, merging |-> FALSE, copied |-> EmptyBuffer,
         read_hit |-> 0, read_miss |-> 0, write_hit |-> 0, write_miss |-> 0]
  BY DEF NewLoop, q, r
<1> HIDE DEF EmptyBuffer
<1>4. NewLoop(start, n) \in Loops
  BY <1>1, <1>2, <1>3, Constants DEF Loops
<1>5. QED
  BY <1>3, <1>4 DEF q, r

LEMMA CountFields ==
    ASSUME NEW l \in Loops, NEW ret \in {0, -1}
    PROVE  /\ CountRead(l, ret) \in Loops /\ CountWrite(l, ret) \in Loops
           /\ CountRead(l, ret).read_hit + CountRead(l, ret).read_miss
                = l.read_hit + l.read_miss + 1
           /\ CountWrite(l, ret).write_hit + CountWrite(l, ret).write_miss
                = l.write_hit + l.write_miss + 1
           /\ CountRead(l, ret).write_hit = l.write_hit
           /\ CountRead(l, ret).write_miss = l.write_miss
           /\ CountWrite(l, ret).read_hit = l.read_hit
           /\ CountWrite(l, ret).read_miss = l.read_miss
           /\ \A c \in {CountRead(l, ret), CountWrite(l, ret)} :
                /\ c.block_id = l.block_id /\ c.remaining = l.remaining
                /\ c.offset = l.offset /\ c.bytes_completed = l.bytes_completed
                /\ c.temp_buffer = l.temp_buffer /\ c.merging = l.merging
                /\ c.copied = l.copied
<1>1. CASE ret = -1
  BY <1>1 DEF CountRead, CountWrite, Loops
<1>2. CASE ret # -1
  BY <1>2 DEF CountRead, CountWrite, Loops
<1>3. QED
  BY <1>1, <1>2

LEMMA AdvanceFields ==
    ASSUME NEW l \in Loops, Amount \in Nat, Amount <= l.remaining
    PROVE  /\ Advance(l) \in Loops
           /\ Advance(l).bytes_completed = l.bytes_completed + Amount
           /\ Advance(l).remaining = l.remaining - Amount
           /\ Advance(l).block_id = l.block_id + 1
           /\ ~Advance(l).merging /\ Advance(l).offset = 0
           /\ Advance(l).temp_buffer = l.temp_buffer /\ Advance(l).copied = l.copied
           /\ Advance(l).read_hit = l.read_hit /\ Advance(l).read_miss = l.read_miss
           /\ Advance(l).write_hit = l.write_hit /\ Advance(l).write_miss = l.write_miss
<1> DEFINE a == Amount
<1>1. a \in Nat /\ a <= l.remaining /\ 0 \in 0 .. BlockSize - 1
  BY Constants
<1>2. Advance(l) = [l EXCEPT !.bytes_completed = @ + a, !.remaining = @ - a,
                             !.block_id = @ + 1, !.offset = 0, !.merging = FALSE]
  BY DEF Advance
<1> DEFINE done == l.bytes_completed + a
           left == l.remaining - a
           next == l.block_id + 1
<1>3. done \in Nat /\ left \in Nat /\ next \in Nat
  BY <1>1 DEF Loops
<1>4. Advance(l) = [l EXCEPT !.bytes_completed = done, !.remaining = left,
                             !.block_id = next, !.offset = 0, !.merging = FALSE]
  BY <1>2 DEF Loops
<1> HIDE DEF a, done, left, next
<1>5. Advance(l) \in Loops
  BY <1>1, <1>3, <1>4 DEF Loops
<1>6. /\ Advance(l).bytes_completed = done /\ Advance(l).remaining = left
      /\ Advance(l).block_id = next
      /\ ~Advance(l).merging /\ Advance(l).offset = 0
      /\ Advance(l).temp_buffer = l.temp_buffer /\ Advance(l).copied = l.copied
      /\ Advance(l).read_hit = l.read_hit /\ Advance(l).read_miss = l.read_miss
      /\ Advance(l).write_hit = l.write_hit /\ Advance(l).write_miss = l.write_miss
  BY <1>4 DEF Loops
<1>7. QED
  BY <1>5, <1>6 DEF a, done, left, next

-----------------------------------------------------------------------------
(* The steps of a call, in the words the invariant needs: what they leave  *)
(* of the contents, and the locals they leave behind.                      *)
Advanced ==
    /\ loop' \in Loops
    /\ loop'.bytes_completed = loop.bytes_completed + Amount
    /\ loop'.remaining = loop.remaining - Amount
    /\ loop'.block_id = loop.block_id + 1 /\ loop'.offset = 0 /\ ~loop'.merging

LEMMA ReadIterationStep ==
    ASSUME ByteInv, ReadIteration
    PROVE  /\ IInv' /\ disk_open' /\ call' = call
           /\ call # Idle /\ call.op = "read" /\ loop.remaining # 0
           /\ Advanced
           /\ loop'.copied \in [0 .. loop'.bytes_completed - 1 -> Bytes]
           /\ loop'.read_hit + loop'.read_miss = loop.read_hit + loop.read_miss + 1
           /\ loop'.write_hit = loop.write_hit /\ loop'.write_miss = loop.write_miss
           /\ Contents' = Contents /\ Contents[loop.block_id] \in Data
           /\ loop'.copied = [i \in 0 .. loop.bytes_completed + Amount - 1 |->
                   IF i < loop.bytes_completed THEN loop.copied[i]
                   ELSE Contents[loop.block_id][loop.offset + i - loop.bytes_completed]]
<1>1. call # Idle /\ call.op = "read" /\ loop.remaining # 0 /\ call' = call
  BY DEF ReadIteration, Idle
<1>2. /\ loop.block_id \in Blocks
      /\ Amount \in 1 .. BlockSize /\ Amount <= loop.remaining
      /\ loop.offset + Amount <= BlockSize
  BY <1>1, IterationInBlock
<1>3. mydisk_read_block(loop.block_id) /\ IInv /\ disk_open /\ loop \in Loops
  BY <1>1 DEF ReadIteration, ByteInv, CallInv
<1>4. IInv'
  BY <1>2, <1>3, Constants, BlockCallKeepsIInv
<1>5. /\ Contents' = Contents /\ disk_open' /\ Contents[loop.block_id] \in Data
      /\ result'.buffer = Contents[loop.block_id] /\ result'.ret \in {0, -1}
  BY <1>2, <1>3, <1>4, ReadBlock
<1> DEFINE done == loop.bytes_completed
           block == Contents[loop.block_id]
           copied == [i \in 0 .. done + Amount - 1 |->
                         IF i < done THEN loop.copied[i] ELSE block[loop.offset + i - done]]
           l == [loop EXCEPT !.temp_buffer = block, !.copied = copied]
<1>6. loop' = Advance(CountRead(l, result'.ret))
  BY <1>5 DEF ReadIteration
<1>7. copied \in Buffers /\ copied \in [0 .. loop.bytes_completed + Amount - 1 -> Bytes]
  <2>1. /\ done \in Nat /\ loop.offset \in 0 .. BlockSize - 1 /\ Amount \in 1 .. BlockSize
        /\ block \in [0 .. BlockSize - 1 -> Bytes]
    BY <1>2, <1>3, <1>5, Constants DEF Loops
  <2>2. loop.copied \in [0 .. done - 1 -> Bytes]
    BY <1>1 DEF ByteInv, CallInv, LoopAtItsPlace
  <2>3. ASSUME NEW i \in 0 .. done + Amount - 1
        PROVE  (IF i < done THEN loop.copied[i] ELSE block[loop.offset + i - done]) \in Bytes
    <3>1. CASE i < done
      BY <2>1, <2>2, <3>1
    <3>2. CASE ~(i < done)
      <4> HIDE DEF done, block
      <4>1. loop.offset + i - done \in 0 .. BlockSize - 1
        <5>1. /\ BlockSize \in Int /\ Amount \in Int /\ loop.offset \in Nat /\ done \in Nat
              /\ i \in Int /\ i >= done /\ i < done + Amount
          BY <2>1, <3>2, Constants
        <5> QED  BY <1>2, <5>1
      <4>2. QED
        BY <2>1, <3>2, <4>1
    <3>3. QED
      BY <3>1, <3>2
  <2>4. copied \in [0 .. done + Amount - 1 -> Bytes]
    BY <2>3
  <2> DEFINE m == done + Amount
  <2>5. m \in Nat /\ copied \in [0 .. m - 1 -> Bytes]
    BY <2>1, <2>4
  <2> HIDE DEF m, copied
  <2>6. copied \in Buffers
    BY <2>5 DEF Buffers
  <2>7. QED
    BY <2>4, <2>6
<1> HIDE DEF copied, block
<1>8. /\ l \in Loops /\ l.copied = copied
      /\ l.block_id = loop.block_id /\ l.remaining = loop.remaining
      /\ l.bytes_completed = loop.bytes_completed
      /\ l.read_hit = loop.read_hit /\ l.read_miss = loop.read_miss
      /\ l.write_hit = loop.write_hit /\ l.write_miss = loop.write_miss
  BY <1>3, <1>5, <1>7 DEF Loops, block
<1> HIDE DEF l
<1> DEFINE c == CountRead(l, result'.ret)
<1>9. /\ c \in Loops /\ c.copied = copied
      /\ c.block_id = loop.block_id /\ c.remaining = loop.remaining
      /\ c.bytes_completed = loop.bytes_completed
      /\ c.read_hit + c.read_miss = loop.read_hit + loop.read_miss + 1
      /\ c.write_hit = loop.write_hit /\ c.write_miss = loop.write_miss
  BY <1>5, <1>8, CountFields
<1> HIDE DEF c
<1>10. loop' = Advance(c) /\ Amount \in Nat /\ Amount <= c.remaining
  BY <1>2, <1>6, <1>9 DEF c
<1>11. Advanced /\ loop'.copied = copied
  BY <1>9, <1>10, AdvanceFields DEF Advanced
<1>12. /\ loop'.read_hit + loop'.read_miss = loop.read_hit + loop.read_miss + 1
       /\ loop'.write_hit = loop.write_hit /\ loop'.write_miss = loop.write_miss
  BY <1>9, <1>10, AdvanceFields
<1>13. loop'.copied \in [0 .. loop'.bytes_completed - 1 -> Bytes]
  <2>1. loop'.bytes_completed - 1 = loop.bytes_completed + Amount - 1
    BY <1>2, <1>3, <1>11 DEF Advanced, Loops
  <2>2. copied \in [0 .. loop'.bytes_completed - 1 -> Bytes]
    BY <1>7, <2>1
  <2>3. QED
    BY <1>11, <2>2
<1>14. QED
  BY <1>1, <1>4, <1>5, <1>11, <1>12, <1>13 DEF copied, block

(* The two writes of an iteration: of a whole block and of a merged one. *)
LEMMA WriteStep ==
    ASSUME ByteInv, call # Idle, call.op = "write", loop.remaining # 0, NEW v \in Data,
           mydisk_write_block(loop.block_id, v),
           loop' = Advance(CountWrite(loop, result'.ret)), call' = call
    PROVE  /\ IInv' /\ disk_open' /\ Advanced
           /\ loop'.write_hit + loop'.write_miss = loop.write_hit + loop.write_miss + 1
           /\ loop'.read_hit = loop.read_hit /\ loop'.read_miss = loop.read_miss
           /\ Contents' = [Contents EXCEPT ![loop.block_id] = v]
<1>1. /\ loop.block_id \in Blocks
      /\ Amount \in 1 .. BlockSize /\ Amount <= loop.remaining
  BY IterationInBlock
<1>2. IInv /\ disk_open /\ loop \in Loops
  BY DEF ByteInv, CallInv
<1>3. IInv'
  BY <1>1, <1>2, BlockCallKeepsIInv
<1>4. /\ Contents' = [Contents EXCEPT ![loop.block_id] = v] /\ disk_open'
      /\ result'.ret \in {0, -1}
  BY <1>1, <1>2, <1>3, WriteBlock
<1> DEFINE c == CountWrite(loop, result'.ret)
<1>5. /\ c \in Loops
      /\ c.block_id = loop.block_id /\ c.remaining = loop.remaining
      /\ c.bytes_completed = loop.bytes_completed
      /\ c.write_hit + c.write_miss = loop.write_hit + loop.write_miss + 1
      /\ c.read_hit = loop.read_hit /\ c.read_miss = loop.read_miss
  BY <1>2, <1>4, CountFields
<1> HIDE DEF c
<1>6. loop' = Advance(c) /\ Amount \in Nat /\ Amount <= c.remaining
  BY <1>1, <1>5 DEF c
<1>7. Advanced
  BY <1>5, <1>6, AdvanceFields DEF Advanced
<1>8. /\ loop'.write_hit + loop'.write_miss = loop.write_hit + loop.write_miss + 1
      /\ loop'.read_hit = loop.read_hit /\ loop'.read_miss = loop.read_miss
  BY <1>5, <1>6, AdvanceFields
<1>9. QED
  BY <1>3, <1>4, <1>7, <1>8

(* The bytes of the caller an iteration lays over a block. *)
LEMMA BufferBytes ==
    ASSUME ByteInv, call # Idle, call.op = "write", loop.remaining # 0,
           NEW j \in 0 .. Amount - 1
    PROVE  call.buffer[loop.bytes_completed + j] \in Bytes
<1>1. /\ Amount \in 1 .. BlockSize /\ Amount <= loop.remaining
      /\ loop.bytes_completed \in Nat /\ loop.remaining \in Nat /\ call.nbytes \in Nat
      /\ loop.remaining + loop.bytes_completed = call.nbytes
      /\ call.buffer \in [0 .. call.nbytes - 1 -> Bytes]
  BY IterationInBlock DEF ByteInv, CallInv, ArgumentsInRange, LoopAtItsPlace, Loops
<1> DEFINE done == loop.bytes_completed
           rest == loop.remaining
           amount == Amount
<1>2. /\ amount \in Nat /\ amount <= rest /\ j \in 0 .. amount - 1
      /\ done \in Nat /\ rest \in Nat /\ call.nbytes = rest + done
  BY <1>1, Constants
<1> HIDE DEF done, rest, amount
<1>3. done + j \in 0 .. call.nbytes - 1
  BY <1>2
<1>4. QED
  BY <1>1, <1>3 DEF done

(* What an iteration on a whole block writes.                              *)
WholeBuffer == [i \in 0 .. BlockSize - 1 |-> call.buffer[loop.bytes_completed + i]]

LEMMA WriteWholeStep ==
    ASSUME ByteInv, WriteWholeBlock
    PROVE  /\ IInv' /\ disk_open' /\ call' = call
           /\ call # Idle /\ call.op = "write" /\ loop.remaining # 0 /\ Amount = BlockSize
           /\ Advanced
           /\ loop'.write_hit + loop'.write_miss = loop.write_hit + loop.write_miss + 1
           /\ loop'.read_hit = loop.read_hit /\ loop'.read_miss = loop.read_miss
           /\ Contents' = [Contents EXCEPT ![loop.block_id] = WholeBuffer]
<1>1. /\ call # Idle /\ call.op = "write" /\ loop.remaining # 0 /\ call' = call
      /\ Amount = BlockSize
      /\ mydisk_write_block(loop.block_id, WholeBuffer)
      /\ loop' = Advance(CountWrite(loop, result'.ret))
  BY DEF WriteWholeBlock, Idle, WholeBuffer
<1>2. WholeBuffer \in Data
  BY <1>1, BufferBytes, Constants DEF WholeBuffer
<1>3. QED
  BY <1>1, <1>2, WriteStep

LEMMA WriteMergedStep ==
    ASSUME ByteInv, WriteMerged
    PROVE  /\ IInv' /\ disk_open' /\ call' = call
           /\ call # Idle /\ call.op = "write" /\ loop.remaining # 0 /\ Amount # BlockSize
           /\ Advanced
           /\ loop'.write_hit + loop'.write_miss = loop.write_hit + loop.write_miss + 1
           /\ loop'.read_hit = loop.read_hit /\ loop'.read_miss = loop.read_miss
           /\ Contents' = [Contents EXCEPT ![loop.block_id] = loop.temp_buffer]
<1>1. /\ call # Idle /\ call.op = "write" /\ loop.remaining # 0 /\ call' = call
      /\ Amount # BlockSize
      /\ loop.temp_buffer \in Data
  BY DEF WriteMerged, ByteInv, CallInv, LoopAtItsPlace, Loops
<1>2. /\ mydisk_write_block(loop.block_id, loop.temp_buffer)
      /\ loop' = Advance(CountWrite(loop, result'.ret))
  BY DEF WriteMerged
<1>3. QED
  BY <1>1, <1>2, WriteStep

(* The merge of a block with the caller's bytes is again a block.          *)
LEMMA MergedIsABlock ==
    ASSUME ByteInv, call # Idle, call.op = "write", loop.remaining # 0, NEW block \in Data
    PROVE  Merged(block) \in Data
<1>1. ASSUME NEW i \in 0 .. BlockSize - 1, i \in loop.offset .. loop.offset + Amount - 1
      PROVE  call.buffer[loop.bytes_completed + i - loop.offset] \in Bytes
  <2>1. /\ i - loop.offset \in 0 .. Amount - 1
        /\ loop.bytes_completed + i - loop.offset = loop.bytes_completed + (i - loop.offset)
    <3>1. loop.offset \in Int /\ loop.bytes_completed \in Int
      BY Constants DEF ByteInv, Loops
    <3>2. Amount \in Int
      BY IterationInBlock, Constants
    <3> QED  BY <1>1, <3>1, <3>2
  <2> DEFINE j == i - loop.offset
  <2>2. j \in 0 .. Amount - 1
    BY <2>1
  <2> HIDE DEF j
  <2>3. call.buffer[loop.bytes_completed + j] \in Bytes
    BY <2>2, BufferBytes
  <2>4. QED
    BY <2>1, <2>3 DEF j
<1>2. QED
  BY <1>1, Constants DEF Merged

LEMMA ReadForMergeStep ==
    ASSUME ByteInv, ReadForMerge
    PROVE  /\ IInv' /\ disk_open' /\ call' = call
           /\ call # Idle /\ call.op = "write" /\ loop.remaining # 0 /\ Amount # BlockSize
           /\ ~loop.merging
           /\ loop' \in Loops /\ loop'.merging
           /\ loop'.block_id = loop.block_id /\ loop'.remaining = loop.remaining
           /\ loop'.offset = loop.offset /\ loop'.bytes_completed = loop.bytes_completed
           /\ loop'.temp_buffer = Merged(Contents[loop.block_id])
           /\ loop'.read_hit + loop'.read_miss = loop.read_hit + loop.read_miss + 1
           /\ loop'.write_hit = loop.write_hit /\ loop'.write_miss = loop.write_miss
           /\ Contents' = Contents
<1>1. /\ call # Idle /\ call.op = "write" /\ loop.remaining # 0 /\ call' = call
      /\ Amount # BlockSize /\ ~loop.merging
  BY DEF ReadForMerge, Idle
<1>2. loop.block_id \in Blocks
  BY <1>1, IterationInBlock
<1>3. mydisk_read_block(loop.block_id) /\ IInv /\ disk_open /\ loop \in Loops
  BY <1>1 DEF ReadForMerge, ByteInv, CallInv
<1>4. IInv'
  BY <1>2, <1>3, Constants, BlockCallKeepsIInv
<1>5. /\ Contents' = Contents /\ disk_open' /\ Contents[loop.block_id] \in Data
      /\ result'.buffer = Contents[loop.block_id] /\ result'.ret \in {0, -1}
  BY <1>2, <1>3, <1>4, ReadBlock
<1> DEFINE merged == Merged(Contents[loop.block_id])
           l == [loop EXCEPT !.merging = TRUE, !.temp_buffer = merged]
<1>6. loop' = CountRead(l, result'.ret)
  BY <1>5 DEF ReadForMerge
<1>7. merged \in Data
  BY <1>1, <1>5, MergedIsABlock
<1> HIDE DEF merged
<1>8. /\ l \in Loops /\ l.merging /\ l.temp_buffer = merged
      /\ l.block_id = loop.block_id /\ l.remaining = loop.remaining
      /\ l.offset = loop.offset /\ l.bytes_completed = loop.bytes_completed
      /\ l.read_hit = loop.read_hit /\ l.read_miss = loop.read_miss
      /\ l.write_hit = loop.write_hit /\ l.write_miss = loop.write_miss
  BY <1>3, <1>7 DEF Loops
<1> HIDE DEF l
<1>9. /\ loop' \in Loops /\ loop'.merging /\ loop'.temp_buffer = merged
      /\ loop'.block_id = loop.block_id /\ loop'.remaining = loop.remaining
      /\ loop'.offset = loop.offset /\ loop'.bytes_completed = loop.bytes_completed
      /\ loop'.read_hit + loop'.read_miss = loop.read_hit + loop.read_miss + 1
      /\ loop'.write_hit = loop.write_hit /\ loop'.write_miss = loop.write_miss
  BY <1>5, <1>6, <1>8, CountFields
<1>10. QED
  BY <1>1, <1>4, <1>5, <1>9 DEF merged
-----------------------------------------------------------------------------
(* Every step of the byte interface keeps the invariant.                   *)
LEMMA AdvancedKeepsByteInv ==
    ASSUME ByteInv, IInv', disk_open', call' = call, call # Idle, loop.remaining # 0,
           Advanced,
           call.op = "read" => loop'.copied \in [0 .. loop'.bytes_completed - 1 -> Bytes]
    PROVE  ByteInv'
<1> DEFINE n == BlockSize
           b == loop.block_id
           rest == loop.remaining
           off == loop.offset
           done == loop.bytes_completed
           a == Amount
<1>1. /\ b \in Nat /\ rest \in Nat \ {0} /\ off \in 0 .. n - 1 /\ done \in Nat
      /\ call.start \in Nat /\ rest + done = call.nbytes
      /\ b * n + off = call.start + done /\ n \in Nat \ {0}
  BY Constants DEF ByteInv, CallInv, ArgumentsInRange, LoopAtItsPlace, Loops
<1>2. a \in 1 .. n /\ a <= rest /\ (rest # a => off + a = n)
  BY IterationInBlock
<1>3. /\ loop'.bytes_completed = done + a /\ loop'.remaining = rest - a
      /\ loop'.block_id = b + 1 /\ loop'.offset = 0 /\ ~loop'.merging /\ loop' \in Loops
  BY DEF Advanced
<1> HIDE DEF n, b, rest, off, done, a
<1>4. loop'.remaining + loop'.bytes_completed = call.nbytes
  BY <1>1, <1>2, <1>3
<1>5. ASSUME loop'.remaining # 0
      PROVE  loop'.block_id * n + loop'.offset = call.start + loop'.bytes_completed
  <2> DEFINE here == b * n
  <2>1. off + a = n
    BY <1>1, <1>2, <1>3, <1>5
  <2>2. (b + 1) * n = here + n /\ here \in Int
    BY <1>1
  <2>3. loop'.block_id * n + loop'.offset = (b + 1) * n
    BY <1>1, <1>3
  <2>4. here + off = call.start + done
    BY <1>1
  <2> HIDE DEF here
  <2>5. here + n = call.start + (done + a)
    BY <1>1, <1>2, <2>1, <2>2, <2>4
  <2>6. QED
    BY <1>3, <2>2, <2>3, <2>5
<1>6. LoopAtItsPlace'
  BY <1>3, <1>4, <1>5 DEF LoopAtItsPlace, n
<1>7. ArgumentsInRange'
  <2>1. ArgumentsInRange
    BY DEF ByteInv, CallInv
  <2>2. QED
    BY <2>1 DEF ArgumentsInRange, CapacityInBytes
<1>8. QED
  BY <1>3, <1>6, <1>7 DEF ByteInv, CallInv

LEMMA ReadForMergeKeepsByteInv ==
    ASSUME ByteInv, ReadForMerge
    PROVE  ByteInv'
<1>1. /\ IInv' /\ disk_open' /\ call' = call
      /\ call # Idle /\ call.op = "write" /\ loop.remaining # 0 /\ Amount # BlockSize
      /\ loop' \in Loops /\ loop'.merging
      /\ loop'.block_id = loop.block_id /\ loop'.remaining = loop.remaining
      /\ loop'.offset = loop.offset /\ loop'.bytes_completed = loop.bytes_completed
  BY ReadForMergeStep
<1>2. Amount' = Amount
  BY <1>1 DEF Amount
<1>3. ArgumentsInRange /\ LoopAtItsPlace
  BY <1>1 DEF ByteInv, CallInv
<1>4. LoopAtItsPlace'
  BY <1>1, <1>2, <1>3 DEF LoopAtItsPlace
<1>5. ArgumentsInRange'
  BY <1>1, <1>3 DEF ArgumentsInRange, CapacityInBytes
<1>6. QED
  BY <1>1, <1>4, <1>5 DEF ByteInv, CallInv

LEMMA FinishKeepsByteInv ==
    ASSUME ByteInv, Finish
    PROVE  ByteInv'
<1>1. call' = Idle /\ loop' = NewLoop(0, 0) /\ UNCHANGED vars
  BY DEF Finish
<1>2. loop' \in Loops /\ ~loop'.merging
  BY <1>1, NewLoopFields
<1>3. IInv'
  BY <1>1, NextKeepsIInv DEF ByteInv
<1>4. QED
  BY <1>1, <1>2, <1>3 DEF ByteInv, CallInv

(* The argument check of both calls: an accepted range is within the disk, *)
(* its last byte excepted.  A sum past the largest int wraps to a negative *)
(* one, which is below the start address, so the check refuses it.         *)
LEMMA AcceptedRange ==
    ASSUME NEW start \in Arguments, NEW n \in Arguments
    PROVE  /\ start \in Int /\ n \in Int /\ CapacityInBytes \in Nat
           /\ ~Rejected(start, n) <=> start >= 0 /\ n >= 0 /\ start + n < CapacityInBytes
<1>1. /\ IntMax \in Nat /\ CapacityInBytes \in Nat /\ CapacityInBytes <= IntMax
      /\ start \in -IntMax - 1 .. IntMax /\ n \in -IntMax - 1 .. IntMax
  BY Constants, ArgumentsAssumption, IntMaxAssumption
<1>2. start + n <= IntMax => Wrap(start + n) = start + n
  BY <1>1 DEF Wrap
<1>3. start + n > IntMax => Wrap(start + n) < start
  BY <1>1 DEF Wrap
<1>4. QED
  BY <1>1, <1>2, <1>3 DEF Rejected

LEMMA BeginKeepsByteInv ==
    ASSUME ByteInv, NEW op \in {"read", "write"},
           NEW start \in Arguments, NEW n \in Arguments, NEW buffer,
           op = "read" => buffer = EmptyBuffer,
           op = "write" => buffer \in WriteBuffers[n],
           Begin(op, start, n, buffer)
    PROVE  /\ ByteInv' /\ start \in Nat /\ n \in Nat
           /\ op = "write" => buffer \in [0 .. n - 1 -> Bytes]
<1>1. /\ disk_open /\ disk_open' /\ UNCHANGED vars /\ loop' = NewLoop(start, n)
      /\ call' = [op |-> op, start |-> start, nbytes |-> n, buffer |-> buffer]
  BY DEF Begin, vars
<1>2. start \in Nat /\ n \in Nat /\ start + n < CapacityInBytes
  BY AcceptedRange DEF Begin
<1>3. op = "write" => buffer \in [0 .. n - 1 -> Bytes]
  BY <1>2, WriteBuffersAssumption
<1>4. IInv'
  BY <1>1, NextKeepsIInv DEF ByteInv
<1>5. /\ loop' \in Loops /\ ~loop'.merging /\ loop'.remaining = n
      /\ loop'.bytes_completed = 0 /\ loop'.copied = EmptyBuffer
      /\ loop'.block_id = start \div BlockSize /\ loop'.offset = start % BlockSize
  BY <1>1, <1>2, NewLoopFields
<1>6. /\ call'.op = op /\ call'.start = start /\ call'.nbytes = n /\ call'.buffer = buffer
  BY <1>1
<1>7. ArgumentsInRange'
  BY <1>2, <1>3, <1>6 DEF ArgumentsInRange, CapacityInBytes
<1>8. LoopAtItsPlace'
  <2>1. loop'.remaining + loop'.bytes_completed = call'.nbytes
    BY <1>2, <1>5, <1>6
  <2>2. loop'.block_id * BlockSize + loop'.offset = call'.start + loop'.bytes_completed
    <3> DEFINE q == start \div BlockSize
               r == start % BlockSize
    <3>0. BlockSize \in Nat \ {0} /\ start \in Nat
      BY <1>2, Constants
    <3>1. start = BlockSize * q + r /\ q \in Nat /\ r \in 0 .. BlockSize - 1
      BY <3>0, Division, Zenon
    <3> HIDE DEF q, r
    <3>2. start = q * BlockSize + r
      BY <3>1, Constants
    <3>3. QED
      BY <1>2, <1>5, <1>6, <3>2 DEF q, r
  <2>3. loop'.copied \in [0 .. loop'.bytes_completed - 1 -> Bytes]
    BY <1>5 DEF EmptyBuffer
  <2>4. QED
    BY <1>5, <2>1, <2>2, <2>3 DEF LoopAtItsPlace
<1>9. call' # Idle
  BY <1>6 DEF Idle
<1>10. QED
  BY <1>1, <1>2, <1>3, <1>4, <1>5, <1>7, <1>8, <1>9 DEF ByteInv, CallInv

(* What a step is: a call of the disk or the cache between calls, the start *)
(* of a call or its refusal, a step of the call in progress.               *)
LEMMA ByteSteps ==
    ASSUME [ByteNext]_allVars
    PROVE  \/ Manage
           \/ ReadIteration \/ WriteWholeBlock \/ ReadForMerge \/ WriteMerged \/ Finish
           \/ \E start, n \in Arguments : Reject(start, n)
           \/ \E start, n \in Arguments : Begin("read", start, n, EmptyBuffer)
           \/ \E start, n \in Arguments : \E buffer \in WriteBuffers[n] :
                 Begin("write", start, n, buffer)
           \/ UNCHANGED allVars
BY DEF ByteNext, Iterate, mydisk_read, mydisk_write

LEMMA StepKeepsByteInv ==
    ASSUME ByteInv, [ByteNext]_allVars
    PROVE  ByteInv'
<1>1. CASE Manage
  <2>1. IInv'
    BY <1>1, ManageKeepsIInv DEF Manage, ByteInv
  <2>2. QED
    BY <1>1, <2>1 DEF Manage, byteVars, ByteInv, CallInv
<1>2. CASE ReadIteration
  BY <1>2, ReadIterationStep, AdvancedKeepsByteInv
<1>3. CASE WriteWholeBlock
  BY <1>3, WriteWholeStep, AdvancedKeepsByteInv
<1>4. CASE ReadForMerge
  BY <1>4, ReadForMergeKeepsByteInv
<1>5. CASE WriteMerged
  BY <1>5, WriteMergedStep, AdvancedKeepsByteInv
<1>6. CASE Finish
  BY <1>6, FinishKeepsByteInv
<1>7. CASE UNCHANGED <<vars, call, loop>>
  <2>1. IInv'
    BY <1>7, NextKeepsIInv DEF ByteInv
  <2>2. CallInv'
    BY <1>7 DEF ByteInv, CallInv, ArgumentsInRange, LoopAtItsPlace, CapacityInBytes,
                Amount, vars
  <2>3. QED
    BY <1>7, <2>1, <2>2 DEF ByteInv
<1>8. CASE \E start, n \in Arguments : Begin("read", start, n, EmptyBuffer)
  BY <1>8, BeginKeepsByteInv
<1>9. CASE \E start, n \in Arguments : \E buffer \in WriteBuffers[n] :
              Begin("write", start, n, buffer)
  BY <1>9, BeginKeepsByteInv
<1>10. QED
  BY <1>1, <1>2, <1>3, <1>4, <1>5, <1>6, <1>7, <1>8, <1>9, ByteSteps
     DEF Reject, allVars, byteVars

LEMMA InitEstablishesByteInv == ByteInit => ByteInv
<1> SUFFICES ASSUME ByteInit PROVE ByteInv
  OBVIOUS
<1>1. IInv /\ call = Idle /\ loop = NewLoop(0, 0)
  BY InitEstablishesIInv DEF ByteInit
<1>2. loop \in Loops /\ ~loop.merging
  BY <1>1, NewLoopFields
<1>3. QED
  BY <1>1, <1>2 DEF ByteInv, CallInv

(* For every disk and every call: the cache and the file are well formed, the *)
(* arguments of the call in progress are within the disk, and its locals name *)
(* the place the bytes done so far have brought it to.                     *)
THEOREM ByteInvariantHolds == ByteSpec => []ByteInv
<1>1. ByteInv /\ [ByteNext]_allVars => ByteInv'
  BY StepKeepsByteInv
<1>2. QED
  BY <1>1, InitEstablishesByteInv, PTL DEF ByteSpec

(* The loops of mydisk_read and mydisk_write name a valid block whenever they *)
(* call the block layer, for every size of block and every range the argument *)
(* check lets through, and what is left and what is done make up the call. *)
THEOREM LoopStaysInRange == ByteSpec => []LoopInRange
<1>1. ByteInv => LoopInRange
  <2>1. SUFFICES ASSUME ByteInv, call # Idle PROVE LoopInRange
    BY DEF LoopInRange
  <2>2. LoopAtItsPlace /\ loop.remaining \in Nat
    BY <2>1 DEF ByteInv, CallInv, Loops
  <2>3. QED
    BY <2>1, <2>2, IterationInBlock DEF LoopInRange, LoopAtItsPlace
<1>2. QED
  BY <1>1, ByteInvariantHolds, PTL
-----------------------------------------------------------------------------
(* The charges.  Between the first block of the call and the one the loop  *)
(* is at, each was read or written once, and those the call covers in part *)
(* were read for merging: the first if the range starts inside it, the     *)
(* last if the range ends inside it.                                       *)
FirstBlock == call.start \div BlockSize
CutsFirst == FirstBlock * BlockSize < call.start
CutsLast == End < loop.block_id * BlockSize
Partial == IF loop.block_id = FirstBlock THEN 0
           ELSE IF loop.block_id = FirstBlock + 1
                THEN IF CutsFirst \/ CutsLast THEN 1 ELSE 0
                ELSE (IF CutsFirst THEN 1 ELSE 0) + (IF CutsLast THEN 1 ELSE 0)

Progress ==
    call # Idle =>
        /\ loop.block_id >= FirstBlock
        /\ loop.block_id = FirstBlock <=> loop.bytes_completed = 0
        /\ loop.block_id > FirstBlock /\ loop.remaining # 0 => loop.offset = 0
        /\ loop.block_id > FirstBlock /\ loop.remaining = 0 =>
              /\ (loop.block_id - 1) * BlockSize < End
              /\ End <= loop.block_id * BlockSize

(* What the call has charged so far.                                       *)
Reads == loop.read_hit + loop.read_miss
Writes == loop.write_hit + loop.write_miss
Charges ==
    call # Idle =>
        /\ call.op = "read" => Reads = loop.block_id - FirstBlock /\ Writes = 0
        /\ call.op = "write" => /\ Writes = loop.block_id - FirstBlock
                                /\ Reads = Partial + (IF loop.merging THEN 1 ELSE 0)

ChargeInv == Progress /\ Charges

(* The block the first byte of the call is in.                             *)
LEMMA FirstBlockOfCall ==
    ASSUME ByteInv, call # Idle
    PROVE  /\ FirstBlock \in Nat /\ FirstBlock * BlockSize <= call.start
           /\ call.start < FirstBlock * BlockSize + BlockSize
<1> DEFINE n == BlockSize
           s == call.start
           q == s \div n
           r == s % n
<1>1. n \in Nat \ {0} /\ s \in Nat
  BY Constants DEF ByteInv, CallInv, ArgumentsInRange
<1> HIDE DEF n, s
<1>2. s = n * q + r /\ q \in Nat /\ r \in 0 .. n - 1
  BY <1>1, Division, Zenon
<1>3. q = FirstBlock
  BY DEF q, n, s, FirstBlock
<1> HIDE DEF q, r
<1>4. q * n <= s /\ s < q * n + n
  BY <1>1, <1>2
<1>5. QED
  BY <1>2, <1>3, <1>4 DEF n, s

(* One iteration: the loop is one block further, and one more block was    *)
(* covered in part if the iteration did not cover a whole one.             *)
LEMMA AdvancedKeepsProgress ==
    ASSUME ByteInv, Progress, call' = call, call # Idle, loop.remaining # 0, Advanced
    PROVE  /\ Progress' /\ FirstBlock' = FirstBlock
           /\ Partial \in Nat
           /\ Partial' = Partial + (IF Amount # BlockSize THEN 1 ELSE 0)
<1> DEFINE n == BlockSize
           b == loop.block_id
           f == FirstBlock
           rest == loop.remaining
           off == loop.offset
           done == loop.bytes_completed
           a == Amount
           end == End
           here == b * n
           there == (b + 1) * n
           first == f * n
<1>1. /\ n \in Nat \ {0} /\ b \in Nat /\ rest \in Nat \ {0} /\ off \in 0 .. n - 1
      /\ done \in Nat /\ call.start \in Nat
      /\ here + off = call.start + done /\ end = call.start + done + rest
      /\ here \in Int /\ end \in Int
  <2>1. end = call.start + call.nbytes
    BY DEF End
  <2>2. /\ n \in Nat \ {0} /\ b \in Nat /\ rest \in Nat \ {0} /\ off \in 0 .. n - 1
        /\ done \in Nat /\ call.start \in Nat
        /\ here + off = call.start + done /\ call.nbytes = rest + done
    BY Constants DEF ByteInv, CallInv, ArgumentsInRange, LoopAtItsPlace, Loops
  <2> HIDE DEF n, b, rest, off, done, end
  <2>3. here \in Int
    BY <2>2
  <2>4. QED
    BY <2>1, <2>2, <2>3
<1>2. a \in 1 .. n /\ a <= rest /\ off + a <= n /\ (rest # a => off + a = n)
  BY IterationInBlock
<1>3. a = IF rest + off >= n THEN n - off ELSE rest
  BY DEF Amount
<1>4. /\ loop'.bytes_completed = done + a /\ loop'.remaining = rest - a
      /\ loop'.block_id = b + 1 /\ loop'.offset = 0
  BY DEF Advanced
<1>5. f \in Nat /\ first \in Int /\ first <= call.start /\ call.start < first + n
  BY FirstBlockOfCall, Constants
<1>6. b >= f /\ (b = f <=> done = 0) /\ (b > f => off = 0)
  BY DEF Progress
<1>7. there = here + n /\ there \in Int
  <2> HIDE DEF n, b
  <2>1. QED
    BY <1>1
<1>8. /\ FirstBlock' = f /\ End' = end
      /\ CutsFirst <=> first < call.start
      /\ CutsFirst' <=> first < call.start
      /\ CutsLast <=> end < here
      /\ CutsLast' <=> end < there
  BY <1>4 DEF FirstBlock, End, CutsFirst, CutsLast
<1>9. b = f => here = first
  OBVIOUS
<1>10. /\ Partial = IF b = f THEN 0
                    ELSE IF b = f + 1
                         THEN IF CutsFirst \/ CutsLast THEN 1 ELSE 0
                         ELSE (IF CutsFirst THEN 1 ELSE 0) + (IF CutsLast THEN 1 ELSE 0)
       /\ Partial' = IF b + 1 = f THEN 0
                     ELSE IF b + 1 = f + 1
                          THEN IF CutsFirst' \/ CutsLast' THEN 1 ELSE 0
                          ELSE (IF CutsFirst' THEN 1 ELSE 0) + (IF CutsLast' THEN 1 ELSE 0)
  BY <1>4, <1>8 DEF Partial
<1> HIDE DEF n, b, f, rest, off, done, a, end, here, there, first
<1>11. ~CutsLast /\ (CutsLast' <=> off + rest < n)
  BY <1>1, <1>7, <1>8
<1>12. Partial \in Nat /\ Partial' = Partial + (IF a # n THEN 1 ELSE 0)
  <2>1. CASE b = f
    <3>1. CutsFirst' <=> off # 0
      BY <1>1, <1>6, <1>8, <1>9, <2>1
    <3>2. a # n <=> off # 0 \/ off + rest < n
      BY <1>1, <1>3
    <3>3. Partial = 0 /\ Partial' = IF CutsFirst' \/ CutsLast' THEN 1 ELSE 0
      BY <1>1, <1>5, <1>10, <2>1
    <3>4. QED
      BY <1>11, <3>1, <3>2, <3>3
  <2>2. CASE b # f
    <3>1. off = 0 /\ b > f
      BY <1>1, <1>5, <1>6, <2>2
    <3>2. a # n <=> off + rest < n
      BY <1>1, <1>3, <3>1
    <3>3. Partial = IF CutsFirst THEN 1 ELSE 0
      BY <1>10, <1>11, <2>2
    <3>4. Partial' = (IF CutsFirst THEN 1 ELSE 0) + (IF CutsLast' THEN 1 ELSE 0)
      BY <1>1, <1>5, <1>8, <1>10, <3>1
    <3>5. QED
      BY <1>11, <3>2, <3>3, <3>4
  <2>3. QED
    BY <2>1, <2>2
<1>13. /\ b + 1 >= f /\ ~(b + 1 = f) /\ ~(done + a = 0)
       /\ rest - a = 0 => here < end /\ end <= there
  BY <1>1, <1>2, <1>5, <1>6, <1>7
<1>14. Progress'
  <2>1. (loop'.block_id - 1) * n = here /\ loop'.block_id * n = there
    BY <1>1, <1>4 DEF here, there
  <2> DEFINE next == loop'.block_id
  <2>2. /\ next >= f /\ ~(next = f) /\ ~(loop'.bytes_completed = 0) /\ loop'.offset = 0
        /\ loop'.remaining = 0 => (next - 1) * n < end /\ end <= next * n
    BY <1>4, <1>13, <2>1
  <2> HIDE DEF next
  <2>3. QED
    BY <1>8, <2>2 DEF Progress, n, next
<1>15. QED
  BY <1>8, <1>12, <1>14 DEF a, n, f

LEMMA ReadIterationKeepsCharges ==
    ASSUME ByteInv, ChargeInv, ReadIteration
    PROVE  ChargeInv'
<1>1. /\ call' = call /\ call # Idle /\ call.op = "read" /\ loop.remaining # 0
      /\ Advanced
      /\ loop'.read_hit + loop'.read_miss = loop.read_hit + loop.read_miss + 1
      /\ loop'.write_hit = loop.write_hit /\ loop'.write_miss = loop.write_miss
  BY ReadIterationStep
<1>2. Progress' /\ FirstBlock' = FirstBlock
  BY <1>1, AdvancedKeepsProgress DEF ChargeInv
<1>3. Reads' = Reads + 1 /\ Writes' = Writes
  BY <1>1 DEF Reads, Writes
<1>4. Reads = loop.block_id - FirstBlock /\ Writes = 0
  BY <1>1 DEF ChargeInv, Charges
<1>5. loop'.block_id = loop.block_id + 1 /\ loop.block_id \in Nat /\ FirstBlock \in Nat
  BY <1>1, FirstBlockOfCall DEF Advanced, ByteInv, Loops
<1>6. Reads' = loop'.block_id - FirstBlock' /\ Writes' = 0
  BY <1>2, <1>3, <1>4, <1>5
<1>7. QED
  BY <1>1, <1>2, <1>6 DEF ChargeInv, Charges

LEMMA WriteKeepsCharges ==
    ASSUME ByteInv, ChargeInv, call' = call, call # Idle, call.op = "write",
           loop.remaining # 0, Advanced, loop.merging <=> Amount # BlockSize,
           loop'.write_hit + loop'.write_miss = loop.write_hit + loop.write_miss + 1,
           loop'.read_hit = loop.read_hit, loop'.read_miss = loop.read_miss
    PROVE  ChargeInv'
<1>1. /\ Progress' /\ FirstBlock' = FirstBlock /\ Partial \in Nat
      /\ Partial' = Partial + (IF Amount # BlockSize THEN 1 ELSE 0)
  BY AdvancedKeepsProgress DEF ChargeInv
<1>2. Reads' = Reads /\ Writes' = Writes + 1
  BY DEF Reads, Writes
<1>3. /\ Writes = loop.block_id - FirstBlock
      /\ Reads = Partial + (IF loop.merging THEN 1 ELSE 0)
  BY DEF ChargeInv, Charges
<1>4. /\ loop'.block_id = loop.block_id + 1 /\ loop.block_id \in Nat /\ FirstBlock \in Nat
      /\ ~loop'.merging
  BY FirstBlockOfCall DEF Advanced, ByteInv, Loops
<1>5. Writes' = loop'.block_id - FirstBlock'
  BY <1>1, <1>2, <1>3, <1>4
<1>6. Reads' = Partial' + (IF loop'.merging THEN 1 ELSE 0)
  <2>1. Reads = Partial'
    BY <1>1, <1>3
  <2>2. Reads' = Partial' /\ Partial' \in Nat
    BY <1>1, <1>2, <2>1
  <2>3. (IF loop'.merging THEN 1 ELSE 0) = 0
    BY <1>4
  <2> DEFINE p == Partial'
  <2>4. p \in Nat /\ Reads' = p
    BY <2>2
  <2> HIDE DEF p
  <2>5. Reads' = p + 0
    BY <2>4
  <2>6. QED
    BY <2>3, <2>5, Zenon DEF p
<1>7. QED
  BY <1>1, <1>5, <1>6 DEF ChargeInv, Charges

LEMMA ReadForMergeKeepsCharges ==
    ASSUME ByteInv, ChargeInv, ReadForMerge
    PROVE  ChargeInv'
<1>1. /\ call' = call /\ call # Idle /\ call.op = "write"
      /\ ~loop.merging /\ loop'.merging
      /\ loop'.block_id = loop.block_id /\ loop'.remaining = loop.remaining
      /\ loop'.offset = loop.offset /\ loop'.bytes_completed = loop.bytes_completed
      /\ loop'.read_hit + loop'.read_miss = loop.read_hit + loop.read_miss + 1
      /\ loop'.write_hit = loop.write_hit /\ loop'.write_miss = loop.write_miss
  BY ReadForMergeStep
<1>2. FirstBlock' = FirstBlock /\ End' = End
  BY <1>1 DEF FirstBlock, End
<1>3. Partial' = Partial
  BY <1>1, <1>2 DEF Partial, CutsFirst, CutsLast
<1>4. Progress'
  BY <1>1, <1>2 DEF ChargeInv, Progress
<1>5. Partial \in Nat
  BY DEF Partial
<1>6. Reads' = Reads + 1 /\ Writes' = Writes
  BY <1>1 DEF Reads, Writes
<1>7. Writes = loop.block_id - FirstBlock /\ Reads = Partial + 0
  BY <1>1 DEF ChargeInv, Charges
<1>8. Writes' = loop'.block_id - FirstBlock' /\ Reads' = Partial' + 1
  BY <1>1, <1>2, <1>3, <1>5, <1>6, <1>7
<1>9. QED
  BY <1>1, <1>4, <1>8 DEF ChargeInv, Charges

LEMMA BeginKeepsCharges ==
    ASSUME ByteInv, NEW op \in {"read", "write"},
           NEW start \in Arguments, NEW n \in Arguments, NEW buffer,
           Begin(op, start, n, buffer)
    PROVE  ChargeInv'
<1>1. /\ loop' = NewLoop(start, n)
      /\ call' = [op |-> op, start |-> start, nbytes |-> n, buffer |-> buffer]
  BY DEF Begin
<1>2. start \in Nat /\ n \in Nat
  BY AcceptedRange DEF Begin
<1>3. /\ ~loop'.merging /\ loop'.remaining = n /\ loop'.bytes_completed = 0
      /\ loop'.block_id = start \div BlockSize
      /\ loop'.read_hit = 0 /\ loop'.read_miss = 0
      /\ loop'.write_hit = 0 /\ loop'.write_miss = 0
  BY <1>1, <1>2, NewLoopFields
<1>4. FirstBlock' = start \div BlockSize
  BY <1>1 DEF FirstBlock
<1>5. start \div BlockSize \in Nat
  BY <1>2, Constants, Division
<1> DEFINE q == start \div BlockSize
<1> HIDE DEF q
<1>6. loop'.block_id = q /\ FirstBlock' = q /\ q \in Nat
  BY <1>3, <1>4, <1>5 DEF q
<1>7. Progress'
  BY <1>3, <1>6 DEF Progress
<1>8. Reads' = 0 /\ Writes' = 0
  BY <1>3 DEF Reads, Writes
<1>9. Partial' = 0
  BY <1>6 DEF Partial
<1>10. Charges'
  BY <1>3, <1>6, <1>8, <1>9 DEF Charges
<1>11. QED
  BY <1>7, <1>10 DEF ChargeInv

(* Every step keeps the account.                                           *)
LEMMA StepKeepsCharges ==
    ASSUME ByteInv, ChargeInv, [ByteNext]_allVars
    PROVE  ChargeInv'
<1>1. CASE UNCHANGED byteVars
  BY <1>1 DEF byteVars, ChargeInv, Progress, Charges, Reads, Writes, Partial, CutsFirst,
              CutsLast, FirstBlock, End
<1>2. CASE ReadIteration
  BY <1>2, ReadIterationKeepsCharges
<1>3. CASE WriteWholeBlock
  <2>1. ~loop.merging
    BY <1>3, WriteWholeStep DEF ByteInv, CallInv, LoopAtItsPlace
  <2>2. QED
    BY <1>3, <2>1, WriteWholeStep, WriteKeepsCharges
<1>4. CASE ReadForMerge
  BY <1>4, ReadForMergeKeepsCharges
<1>5. CASE WriteMerged
  <2>1. loop.merging
    BY <1>5 DEF WriteMerged
  <2>2. QED
    BY <1>5, <2>1, WriteMergedStep, WriteKeepsCharges
<1>6. CASE Finish
  BY <1>6 DEF Finish, ChargeInv, Progress, Charges
<1>7. CASE UNCHANGED <<call, loop>>
  BY <1>7 DEF ChargeInv, Progress, Charges, Reads, Writes, Partial, CutsFirst,
              CutsLast, FirstBlock, End
<1>8. CASE \E start, n \in Arguments : Begin("read", start, n, EmptyBuffer)
  BY <1>8, BeginKeepsCharges
<1>9. CASE \E start, n \in Arguments : \E buffer \in WriteBuffers[n] :
              Begin("write", start, n, buffer)
  BY <1>9, BeginKeepsCharges
<1>10. QED
  BY <1>1, <1>2, <1>3, <1>4, <1>5, <1>6, <1>7, <1>8, <1>9, ByteSteps
     DEF Manage, Reject, allVars, byteVars

(* How many blocks an interval of blocks has.                              *)
LEMMA SpanOfInterval ==
    ASSUME NEW lo \in Int, NEW hi \in Int
    PROVE  Span(lo .. hi) = IF lo <= hi THEN hi - lo + 1 ELSE 0
<1>1. CASE lo <= hi
  <2> DEFINE S == lo .. hi
             max == CHOOSE x \in S : \A y \in S : x >= y
             min == CHOOSE x \in S : \A y \in S : x <= y
  <2>1. hi \in S /\ \A y \in S : hi >= y
    BY <1>1
  <2>2. lo \in S /\ \A y \in S : lo <= y
    BY <1>1
  <2>3. max \in S /\ \A y \in S : max >= y
    BY <2>1
  <2>4. min \in S /\ \A y \in S : min <= y
    BY <2>2
  <2>5. S # {} /\ Span(S) = max - min + 1
    BY <2>1 DEF Span
  <2> HIDE DEF max, min
  <2>6. max = hi /\ min = lo
    BY <2>1, <2>2, <2>3, <2>4
  <2>7. QED
    BY <1>1, <2>5, <2>6
<1>2. CASE ~(lo <= hi)
  BY <1>2 DEF Span
<1>3. QED
  BY <1>1, <1>2

(* At the end of a call that asked for bytes, the loop has passed every    *)
(* block that holds one of them.                                           *)
LEMMA TouchedBlocks ==
    ASSUME ByteInv, Progress, call # Idle, loop.remaining = 0, call.nbytes # 0
    PROVE  /\ loop.block_id > FirstBlock
           /\ Touched = FirstBlock .. loop.block_id - 1
           /\ Whole = (IF CutsFirst THEN FirstBlock + 1 ELSE FirstBlock)
                        .. (IF CutsLast THEN loop.block_id - 2 ELSE loop.block_id - 1)
<1> DEFINE n == BlockSize
           s == call.start
           b == loop.block_id
           f == FirstBlock
           end == End
<1>1. /\ n \in Nat \ {0} /\ s \in Nat /\ b \in Nat /\ end \in Nat /\ s < end
      /\ f \in Nat /\ f * n <= s /\ s < f * n + n
  <2>1. s \in Nat /\ call.nbytes \in Nat /\ b \in Nat /\ end = s + call.nbytes
    BY DEF ByteInv, CallInv, ArgumentsInRange, Loops, End
  <2>2. n \in Nat \ {0} /\ f \in Nat /\ f * n <= s /\ s < f * n + n
    BY Constants, FirstBlockOfCall
  <2> HIDE DEF n, s, b, f, end
  <2>3. end \in Nat /\ s < end
    BY <2>1
  <2>4. QED
    BY <2>1, <2>2, <2>3
<1>2. b > f /\ (b - 1) * n < end /\ end <= b * n
  <2>0. /\ 0 + loop.bytes_completed = call.nbytes /\ loop.bytes_completed \in Nat
        /\ call.nbytes \in Nat
    BY DEF ByteInv, CallInv, LoopAtItsPlace, ArgumentsInRange, Loops
  <2>1. loop.bytes_completed # 0
    BY <2>0
  <2>2. b >= f /\ b # f
    BY <2>1 DEF Progress
  <2>3. b > f
    BY <1>1, <2>2
  <2>4. QED
    BY <2>3 DEF Progress
<1>3. Touched = {a \div n : a \in s .. end - 1}
  BY DEF Touched
<1>4. Whole = {x \in Touched : x * n >= s /\ (x + 1) * n <= end}
  BY DEF Whole
<1>5. (CutsFirst <=> f * n < s) /\ (CutsLast <=> end < b * n)
  BY DEF CutsFirst, CutsLast
<1> HIDE DEF n, s, b, f, end
<1>6. \A x \in Int : x > f => x * n >= f * n + n
  <2>1. ASSUME NEW x \in Int, x > f PROVE x * n >= f * n + n
    <3>1. (f + 1) * n <= x * n
      BY <1>1, <2>1, TimesInOrder
    <3>2. (f + 1) * n = f * n + n
      BY <1>1
    <3>3. QED
      BY <3>1, <3>2
  <2>2. QED
    BY <2>1
<1>7. \A x \in Int : x < b => x * n <= (b - 1) * n
  BY <1>1, TimesInOrder
<1>8. Touched = f .. b - 1
  <2>1. ASSUME NEW a \in s .. end - 1 PROVE a \div n \in f .. b - 1
    <3> DEFINE q == a \div n
               r == a % n
    <3>0. a \in Nat
      BY <1>1
    <3>1. a = n * q + r /\ q \in Nat /\ r \in 0 .. n - 1
      BY <1>1, <3>0, Division, Zenon
    <3> HIDE DEF q, r
    <3>2. q * n <= a /\ a < q * n + n /\ (q + 1) * n = q * n + n
      BY <1>1, <3>0, <3>1
    <3>3. ASSUME q < f PROVE FALSE
      <4>1. (q + 1) * n <= f * n
        BY <1>1, <3>1, <3>3, TimesInOrder
      <4> DEFINE qn == q * n
                 fn == f * n
      <4>2. qn + n <= fn /\ fn <= s /\ a < qn + n /\ s <= a
        BY <1>1, <3>2, <4>1
      <4>3. qn \in Int /\ fn \in Int
        BY <1>1, <3>1
      <4> HIDE DEF qn, fn
      <4>4. QED
        BY <1>1, <3>0, <4>2, <4>3
    <3>4. ASSUME q > b - 1 PROVE FALSE
      <4>1. b * n <= q * n
        BY <1>1, <3>1, <3>4, TimesInOrder
      <4> DEFINE qn == q * n
                 bn == b * n
      <4>2. bn <= qn /\ end <= bn /\ qn <= a /\ a < end
        BY <1>1, <1>2, <3>2, <4>1
      <4>3. qn \in Int /\ bn \in Int
        BY <1>1, <3>1
      <4> HIDE DEF qn, bn
      <4>4. QED
        BY <1>1, <3>0, <4>2, <4>3
    <3>5. q \in f .. b - 1
      BY <1>1, <3>1, <3>3, <3>4
    <3>6. QED
      BY <3>5 DEF q
  <2>2. ASSUME NEW x \in f .. b - 1 PROVE \E a \in s .. end - 1 : x = a \div n
    <3>0. x \in Nat /\ x * n \in Nat
      BY <1>1
    <3>1. CASE x = f
      <4> DEFINE r == s - f * n
      <4>1. r \in 0 .. n - 1 /\ n * f + r = s
        BY <1>1
      <4> HIDE DEF r
      <4>2. (n * f + r) \div n = f
        BY <1>1, <4>1, QuotientAndRemainder
      <4>3. s \div n = x /\ s \in s .. end - 1
        BY <1>1, <3>1, <4>1, <4>2
      <4>4. QED
        BY <4>3
    <3>2. CASE x # f
      <4>1. x * n >= f * n + n /\ x * n <= (b - 1) * n
        BY <1>1, <1>6, <1>7, <3>2
      <4>2. x * n \in s .. end - 1
        BY <1>1, <1>2, <3>0, <4>1
      <4>3. (n * x + 0) \div n = x
        BY <1>1, <3>0, QuotientAndRemainder
      <4>4. n * x + 0 = x * n
        BY <1>1, <3>0
      <4>5. QED
        BY <4>2, <4>3, <4>4
    <3>3. QED
      BY <3>1, <3>2
  <2>3. QED
    BY <1>3, <2>1, <2>2
<1> DEFINE lo == IF CutsFirst THEN f + 1 ELSE f
           hi == IF CutsLast THEN b - 2 ELSE b - 1
<1>9. ASSUME NEW x \in f .. b - 1
      PROVE  (x * n >= s /\ (x + 1) * n <= end) <=> x \in lo .. hi
  <2>1. x * n >= s <=> x >= lo
    BY <1>1, <1>5, <1>6
  <2>2. (x + 1) * n <= end <=> x <= hi
    <3>1. CASE x = b - 1
      <4>1. (x + 1) * n = b * n
        BY <1>1, <3>1
      <4>2. QED
        BY <1>1, <1>2, <1>5, <3>1, <4>1
    <3>2. CASE x # b - 1
      <4>1. (x + 1) * n <= (b - 1) * n
        BY <1>1, <1>7, <3>2
      <4>2. QED
        BY <1>1, <1>2, <3>2, <4>1
    <3>3. QED
      BY <3>1, <3>2
  <2>3. QED
    BY <1>1, <2>1, <2>2
<1>10. \A x \in lo .. hi : x \in f .. b - 1
  BY <1>1, <1>2
<1>11. Whole = lo .. hi
  BY <1>4, <1>8, <1>9, <1>10
<1>12. QED
  BY <1>2, <1>8, <1>11 DEF f, b

(* At the end the account is the one the property asks for.                *)
LEMMA ChargedOnce == ByteInv /\ ChargeInv => EveryBlockIsChargedOnce
<1> SUFFICES ASSUME ByteInv, ChargeInv, call # Idle, loop.remaining = 0
             PROVE  IF call.op = "read" THEN Reads = Span(Touched) /\ Writes = 0
                    ELSE Writes = Span(Touched) /\ Reads = Span(Touched) - Span(Whole)
  BY DEF EveryBlockIsChargedOnce, Reads, Writes
<1> DEFINE b == loop.block_id
           f == FirstBlock
<1>1. /\ f \in Nat /\ b \in Nat /\ call.op \in {"read", "write"} /\ ~loop.merging
      /\ call.start \in Nat /\ call.nbytes \in Nat /\ loop.bytes_completed = call.nbytes
  BY FirstBlockOfCall DEF ByteInv, CallInv, ArgumentsInRange, LoopAtItsPlace, Loops
<1>2. /\ call.op = "read" => Reads = b - f /\ Writes = 0
      /\ call.op = "write" => Writes = b - f /\ Reads = Partial + 0
  BY <1>1 DEF ChargeInv, Charges
<1>3. CASE call.nbytes = 0
  <2>1. b = f
    BY <1>1, <1>3 DEF ChargeInv, Progress
  <2>2. Touched = {}
    BY <1>1, <1>3 DEF Touched, End
  <2>3. Whole = {}
    BY <2>2 DEF Whole
  <2>4. Span(Touched) = 0 /\ Span(Whole) = 0
    BY <2>2, <2>3 DEF Span
  <2>5. Partial = 0
    BY <2>1 DEF Partial
  <2>6. QED
    BY <1>1, <1>2, <2>1, <2>4, <2>5
<1>4. CASE call.nbytes # 0
  <2> DEFINE lo == IF CutsFirst THEN f + 1 ELSE f
             hi == IF CutsLast THEN b - 2 ELSE b - 1
  <2>1. b > f /\ Touched = f .. b - 1 /\ Whole = lo .. hi
    BY <1>4, TouchedBlocks DEF ChargeInv
  <2>2. Span(Touched) = b - f
    <3> DEFINE last == b - 1
    <3>1. last \in Int /\ f <= last /\ (last - f) + 1 = b - f
      BY <1>1, <2>1
    <3> HIDE DEF last
    <3>2. Span(f .. last) = last - f + 1
      BY <1>1, <3>1, SpanOfInterval
    <3>3. QED
      BY <1>1, <2>1, <3>1, <3>2 DEF last
  <2>3. Span(Whole) = IF lo <= hi THEN hi - lo + 1 ELSE 0
    <3>1. lo \in Int /\ hi \in Int
      BY <1>1
    <3> HIDE DEF lo, hi
    <3>2. QED
      BY <2>1, <3>1, SpanOfInterval
  <2>4. Partial = IF b = f + 1 THEN IF CutsFirst \/ CutsLast THEN 1 ELSE 0
                  ELSE (IF CutsFirst THEN 1 ELSE 0) + (IF CutsLast THEN 1 ELSE 0)
    BY <1>1, <2>1 DEF Partial
  <2>5. Partial = b - f - Span(Whole)
    BY <1>1, <2>1, <2>3, <2>4
  <2>6. QED
    BY <1>1, <1>2, <2>2, <2>5
<1>5. QED
  BY <1>3, <1>4

(* When a call is done it has charged each block it touches once, and a write *)
(* has read those it changes in part: whatever the range and the size of a *)
(* block, and however often the cache evicted in between.                  *)
THEOREM BlocksAreChargedOnce == ByteSpec => []EveryBlockIsChargedOnce
<1>1. ByteInit => ChargeInv
  BY DEF ByteInit, ChargeInv, Progress, Charges
<1>2. ByteInv /\ ChargeInv /\ [ByteNext]_allVars => ChargeInv'
  BY StepKeepsCharges
<1>3. QED
  BY <1>1, <1>2, ChargedOnce, ByteInvariantHolds, PTL DEF ByteSpec
-----------------------------------------------------------------------------
(* The flat array.  A byte of the disk is a byte of one block, and each    *)
(* byte of a block is one of the disk.                                     *)
LEMMA AddressIsInABlock ==
    ASSUME NEW a \in 0 .. CapacityInBytes - 1
    PROVE  /\ a \div BlockSize \in Blocks /\ a % BlockSize \in 0 .. BlockSize - 1
           /\ a = (a \div BlockSize) * BlockSize + (a % BlockSize)
<1> DEFINE n == BlockSize
           q == a \div n
           r == a % n
<1>1. n \in Nat \ {0} /\ a \in Nat /\ a < MaxBlocks * n /\ MaxBlocks \in Nat
  BY Constants
<1> HIDE DEF n
<1>2. a = n * q + r /\ q \in Nat /\ r \in 0 .. n - 1
  BY <1>1, Division, Zenon
<1> HIDE DEF q, r
<1>3. a = q * n + r
  BY <1>1, <1>2
<1>4. ASSUME q >= MaxBlocks PROVE FALSE
  <2>1. MaxBlocks * n <= q * n
    BY <1>1, <1>2, <1>4, TimesInOrder
  <2>2. QED
    BY <1>1, <1>2, <1>3, <2>1
<1>5. q \in Blocks
  BY <1>1, <1>2, <1>4 DEF Blocks
<1>6. QED
  BY <1>2, <1>3, <1>5 DEF q, r, n

LEMMA ByteOfBlock ==
    ASSUME NEW b \in Blocks, NEW i \in 0 .. BlockSize - 1
    PROVE  /\ b * BlockSize + i \in 0 .. CapacityInBytes - 1
           /\ (b * BlockSize + i) \div BlockSize = b
           /\ (b * BlockSize + i) % BlockSize = i
<1> DEFINE n == BlockSize
           here == b * n
           all == MaxBlocks * n
<1>1. n \in Nat \ {0} /\ b \in Nat /\ b + 1 <= MaxBlocks /\ i \in 0 .. n - 1
      /\ CapacityInBytes = all /\ MaxBlocks \in Nat
  BY Constants DEF Blocks
<1> HIDE DEF n
<1>2. here \in Nat /\ all \in Nat /\ n * b + i = here + i /\ (b + 1) * n = here + n
  BY <1>1
<1>3. (b + 1) * n <= all
  BY <1>1, TimesInOrder
<1>4. (n * b + i) \div n = b /\ (n * b + i) % n = i
  BY <1>1, QuotientAndRemainder
<1> HIDE DEF here, all
<1>5. here + i \in 0 .. all - 1
  BY <1>1, <1>2, <1>3
<1>6. QED
  BY <1>1, <1>2, <1>4, <1>5 DEF n, here

(* What a byte of the flat array is. *)
Pending(a) == /\ call.op = "write"
              /\ call.start + loop.bytes_completed <= a /\ a < End
StoredByte(a) == IF Contents[a \div BlockSize] = Absent THEN Absent
                 ELSE Contents[a \div BlockSize][a % BlockSize]

FlatBytesShape ==
    \A a \in 0 .. CapacityInBytes - 1 :
        FlatBytes[a] = IF Pending(a) THEN call.buffer[a - call.start] ELSE StoredByte(a)

LEMMA FlatByte == ByteInv => FlatBytesShape
<1> SUFFICES ASSUME ByteInv, NEW a \in 0 .. CapacityInBytes - 1
             PROVE  FlatBytes[a] = IF Pending(a) THEN call.buffer[a - call.start]
                                                 ELSE StoredByte(a)
  BY DEF FlatBytesShape
<1> DEFINE pending == IF call.op = "write"
                      THEN call.start + loop.bytes_completed
                             .. call.start + call.nbytes - 1
                      ELSE {}
<1>1. a \in pending <=> Pending(a)
  <2>1. CASE call.op = "write"
    <3>1. /\ call.start \in Nat /\ call.nbytes \in Nat /\ loop.bytes_completed \in Nat
          /\ a \in Nat
      BY <2>1, Constants DEF ByteInv, CallInv, ArgumentsInRange, Loops, Idle
    <3>2. QED
      BY <2>1, <3>1 DEF Pending, End
  <2>2. CASE call.op # "write"
    BY <2>2 DEF Pending
  <2>3. QED
    BY <2>1, <2>2
<1>2. FlatBytes[a] = IF a \in pending THEN call.buffer[a - call.start]
                     ELSE IF Contents[a \div BlockSize] = Absent THEN Absent
                     ELSE Contents[a \div BlockSize][a % BlockSize]
  BY DEF FlatBytes
<1>3. QED
  BY <1>1, <1>2 DEF StoredByte

LEMMA FlatByteNext == ByteInv' => FlatBytesShape'
BY FlatByte, PTL

(* Two arrays that agree on every byte are equal. *)
LEMMA SameBytes ==
    /\ (\A a \in 0 .. CapacityInBytes - 1 : FlatBytes'[a] = FlatBytes[a])
          => FlatBytes' = FlatBytes
    /\ \A g : (\A a \in 0 .. CapacityInBytes - 1 : FlatBytes'[a] = g[a])
          => FlatBytes' = [a \in 0 .. CapacityInBytes - 1 |-> g[a]]
BY DEF FlatBytes, CapacityInBytes

(* What the steps of a call know of the array: a read has copied its bytes *)
(* in order, a merged block is the block it goes to with the caller's      *)
(* bytes laid over.                                                        *)
Carried ==
    call # Idle =>
        /\ call.op = "read" => loop.copied = [i \in 0 .. loop.bytes_completed - 1 |->
                                                 FlatBytes[call.start + i]]
        /\ loop.merging => loop.temp_buffer = Merged(Contents[loop.block_id])

LEMMA SameContentsSameBytes ==
    ASSUME ByteInv, ByteInv', Contents' = Contents,
           \A a \in 0 .. CapacityInBytes - 1 : ~Pending(a) /\ ~Pending(a)'
    PROVE  FlatBytes' = FlatBytes
<1>1. ASSUME NEW a \in 0 .. CapacityInBytes - 1 PROVE FlatBytes'[a] = FlatBytes[a]
  <2>1. FlatBytes[a] = StoredByte(a)
    BY FlatByte DEF FlatBytesShape
  <2>2. FlatBytes'[a] = StoredByte(a)'
    BY FlatByteNext DEF FlatBytesShape, CapacityInBytes
  <2>3. StoredByte(a)' = StoredByte(a)
    BY DEF StoredByte
  <2>4. QED
    BY <2>1, <2>2, <2>3
<1>2. QED
  BY <1>1, SameBytes

(* A read iteration copies the bytes of the array that come next. *)
LEMMA ReadIterationOnBytes ==
    ASSUME ByteInv, ByteInv', Carried, ReadIteration
    PROVE  FlatBytes' = FlatBytes /\ Carried'
<1>1. /\ call' = call /\ call # Idle /\ call.op = "read" /\ loop.remaining # 0
      /\ Advanced /\ Contents' = Contents /\ Contents[loop.block_id] \in Data
      /\ loop'.copied = [i \in 0 .. loop.bytes_completed + Amount - 1 |->
              IF i < loop.bytes_completed THEN loop.copied[i]
              ELSE Contents[loop.block_id][loop.offset + i - loop.bytes_completed]]
  BY ReadIterationStep
<1>2. FlatBytes' = FlatBytes
  BY <1>1, SameContentsSameBytes DEF Pending
<1> DEFINE done == loop.bytes_completed
           b == loop.block_id
           off == loop.offset
           amount == Amount
<1>3. /\ b \in Blocks /\ amount \in 1 .. BlockSize /\ off + amount <= BlockSize
      /\ done \in Nat /\ off \in 0 .. BlockSize - 1 /\ call.start \in Nat
      /\ b * BlockSize + off = call.start + done /\ BlockSize \in Nat \ {0}
  BY <1>1, IterationInBlock, Constants
     DEF ByteInv, CallInv, ArgumentsInRange, LoopAtItsPlace, Loops
<1>4. ASSUME NEW j \in 0 .. amount - 1
      PROVE  FlatBytes[call.start + done + j] = Contents[b][off + j]
  <2> DEFINE i == off + j
             here == b * BlockSize
  <2>1. i \in 0 .. BlockSize - 1
    BY <1>3
  <2>2. here \in Int
    BY <1>3 DEF Blocks
  <2> HIDE DEF i
  <2>3. /\ b * BlockSize + i \in 0 .. CapacityInBytes - 1
        /\ (b * BlockSize + i) \div BlockSize = b
        /\ (b * BlockSize + i) % BlockSize = i
    BY <1>3, <2>1, ByteOfBlock
  <2>4. FlatBytes[b * BlockSize + i] = StoredByte(b * BlockSize + i)
    BY <1>1, <2>3, FlatByte DEF FlatBytesShape, Pending
  <2>5. StoredByte(b * BlockSize + i) = Contents[b][i]
    BY <1>1, <2>3, DataAssumption DEF StoredByte
  <2> HIDE DEF here, b, off, done, amount
  <2>6. here + off = call.start + done /\ b * BlockSize + i = here + i
    BY <1>3 DEF here
  <2>7. call.start + done + j = here + i
    BY <1>3, <2>2, <2>6 DEF i
  <2>8. QED
    BY <2>4, <2>5, <2>6, <2>7 DEF i
<1>5. loop.copied = [i \in 0 .. done - 1 |-> FlatBytes[call.start + i]]
  BY <1>1 DEF Carried
<1>6. loop'.bytes_completed - 1 = done + amount - 1
  BY <1>1, <1>3 DEF Advanced
<1>7. ASSUME NEW i \in 0 .. done + amount - 1
      PROVE  loop'.copied[i] = FlatBytes[call.start + i]
  <2>1. CASE i < done
    BY <1>1, <1>3, <1>5, <2>1
  <2>2. CASE ~(i < done)
    <3> DEFINE j == i - done
    <3>1. /\ j \in 0 .. amount - 1 /\ call.start + done + j = call.start + i
          /\ off + j = off + i - done
      BY <1>3, <2>2
    <3> HIDE DEF j
    <3>2. loop'.copied[i] = Contents[b][off + i - done]
      BY <1>1, <2>2
    <3>3. QED
      BY <1>4, <3>1, <3>2
  <2>3. QED
    BY <2>1, <2>2
<1>8. loop'.copied = [i \in 0 .. loop'.bytes_completed - 1 |-> FlatBytes[call.start + i]]
  BY <1>1, <1>6, <1>7
<1>9. QED
  BY <1>1, <1>2, <1>8 DEF Carried, Advanced

(* A write iteration puts into the contents the bytes of the caller that   *)
(* were pending in its block, and the bytes around them as they were.      *)
LEMMA WriteOnBytes ==
    ASSUME ByteInv, ByteInv', call' = call, call # Idle, call.op = "write",
           loop.remaining # 0, Advanced,
           Contents[loop.block_id] \in Data,
           Contents' = [Contents EXCEPT ![loop.block_id] = Merged(Contents[loop.block_id])]
    PROVE  FlatBytes' = FlatBytes
<1> DEFINE n == BlockSize
           done == loop.bytes_completed
           rest == loop.remaining
           b == loop.block_id
           off == loop.offset
           amount == Amount
           s == call.start
           here == b * n
           old == Contents[b]
           new == Merged(old)
<1>1. /\ b \in Blocks /\ amount \in 1 .. n /\ amount <= rest /\ off + amount <= n
      /\ rest # amount => off + amount = n
  BY IterationInBlock
<1>2. /\ done \in Nat /\ rest \in Nat /\ off \in 0 .. n - 1 /\ s \in Nat
      /\ here + off = s + done /\ n \in Nat \ {0} /\ b \in Nat
      /\ call.nbytes = rest + done
  BY Constants DEF ByteInv, CallInv, ArgumentsInRange, LoopAtItsPlace, Loops
<1>3. /\ \A i \in 0 .. n - 1 :
            new[i] = IF i \in off .. off + amount - 1 THEN call.buffer[done + i - off]
                     ELSE old[i]
      /\ new \in Data
  BY MergedIsABlock DEF Merged
<1>4. /\ Contents'[b] = new /\ \A c \in Blocks : c # b => Contents'[c] = Contents[c]
      /\ loop'.bytes_completed = done + amount
  BY <1>1 DEF Advanced, Contents
<1> HIDE DEF new, old, amount
<1>5. ASSUME NEW a \in 0 .. CapacityInBytes - 1
      PROVE  FlatBytes'[a] = FlatBytes[a]
  <2> DEFINE q == a \div n
             r == a % n
             end == s + done + rest
             base == q * n
  <2>1. q \in Blocks /\ r \in 0 .. n - 1 /\ a = base + r
    BY AddressIsInABlock
  <2>2. a \in Nat /\ base \in Int /\ here \in Int /\ q \in Nat
    BY <1>2, <2>1, Constants DEF Blocks
  <2>3. /\ Pending(a) <=> s + done <= a /\ a < end
        /\ Pending(a)' <=> s + done + amount <= a /\ a < end
    <3>1. End = end /\ End' = end
      BY <1>2 DEF End
    <3>2. call.op = "write" /\ call'.op = "write" /\ call'.start = s
      OBVIOUS
    <3>3. Pending(a) <=> s + done <= a /\ a < end
      BY <3>1, <3>2 DEF Pending
    <3>4. Pending(a)' <=> s + loop'.bytes_completed <= a /\ a < end
      BY <3>1, <3>2 DEF Pending
    <3>5. s + loop'.bytes_completed = s + done + amount
      BY <1>1, <1>2, <1>4
    <3>6. QED
      BY <3>3, <3>4, <3>5
  <2>4. FlatBytes[a] = IF Pending(a) THEN call.buffer[a - s] ELSE StoredByte(a)
    BY FlatByte DEF FlatBytesShape
  <2>5. FlatBytes'[a] = IF Pending(a)' THEN call.buffer[a - s] ELSE StoredByte(a)'
    BY FlatByteNext DEF FlatBytesShape, CapacityInBytes
  <2>6. /\ StoredByte(a) = IF Contents[q] = Absent THEN Absent ELSE Contents[q][r]
        /\ StoredByte(a)' = IF Contents'[q] = Absent THEN Absent ELSE Contents'[q][r]
    BY DEF StoredByte
  <2>7. CASE q = b
    <3>1. StoredByte(a) = old[r] /\ StoredByte(a)' = new[r]
      BY <1>3, <1>4, <2>6, <2>7, DataAssumption DEF old
    <3>2. base = here
      BY <2>7
    <3> HIDE DEF base, here, q, r, n, b, off, done, rest, s
    <3>3. CASE r \in off .. off + amount - 1
      <4>1. new[r] = call.buffer[done + r - off]
        BY <1>3, <2>1, <3>3
      <4>2. done + r - off = a - s
        BY <1>1, <1>2, <2>1, <2>2, <3>2
      <4>3. s + done <= a /\ a < end /\ ~(s + done + amount <= a)
        BY <1>1, <1>2, <2>1, <2>2, <3>2, <3>3
      <4>4. QED
        BY <2>3, <2>4, <2>5, <3>1, <4>1, <4>2, <4>3
    <3>4. CASE r \notin off .. off + amount - 1
      <4>1. new[r] = old[r]
        BY <1>3, <2>1, <3>4
      <4>2. ~(s + done <= a /\ a < end)
        <5>1. r < off \/ r >= off + amount
          BY <1>1, <1>2, <2>1, <3>4
        <5>2. CASE r < off
          BY <1>1, <1>2, <2>1, <2>2, <3>2, <5>2
        <5>3. CASE r >= off + amount
          <6>1. rest = amount
            BY <1>1, <1>2, <2>1, <5>3
          <6>2. QED
            BY <1>1, <1>2, <2>1, <2>2, <3>2, <5>3, <6>1
        <5>4. QED
          BY <5>1, <5>2, <5>3
      <4>3. ~(s + done + amount <= a /\ a < end)
        BY <1>1, <1>2, <2>2, <4>2
      <4>4. QED
        BY <2>3, <2>4, <2>5, <3>1, <4>1, <4>2, <4>3
    <3>5. QED
      BY <3>3, <3>4
  <2>8. CASE q # b
    <3>1. StoredByte(a)' = StoredByte(a)
      BY <1>4, <2>1, <2>6, <2>8
    <3>2. a < here \/ a >= here + n
      <4>1. CASE q < b
        <5>1. (q + 1) * n <= b * n
          BY <1>2, <2>2, <4>1, TimesInOrder
        <5>2. (q + 1) * n = base + n
          BY <1>2, <2>2
        <5>3. base + n <= here
          BY <5>1, <5>2
        <5> HIDE DEF base, here, q, r, n, b
        <5>4. QED
          BY <1>2, <2>1, <2>2, <5>3
      <4>2. CASE b < q
        <5>1. (b + 1) * n <= q * n
          BY <1>2, <2>2, <4>2, TimesInOrder
        <5>2. (b + 1) * n = here + n
          BY <1>2, <2>2
        <5>3. here + n <= base
          BY <5>1, <5>2
        <5> HIDE DEF base, here, q, r, n, b
        <5>4. QED
          BY <1>2, <2>1, <2>2, <5>3
      <4> HIDE DEF q, b
      <4>3. q < b \/ b < q
        BY <1>2, <2>2, <2>8
      <4>4. QED
        BY <4>1, <4>2, <4>3
    <3> HIDE DEF base, here, q, r, n, b, off, done, rest, s
    <3>3. (s + done <= a /\ a < end) <=> (s + done + amount <= a /\ a < end)
      BY <1>1, <1>2, <2>2, <3>2
    <3>4. QED
      BY <2>3, <2>4, <2>5, <3>1, <3>3
  <2>9. QED
    BY <2>7, <2>8
<1>6. QED
  BY <1>5, SameBytes

(* While a call is in progress every block has a value. *)
LEMMA ContentsAreData ==
    ASSUME ByteInv, call # Idle, NEW b \in Blocks
    PROVE  Contents[b] \in Data
<1>1. b \in FileBlocks /\ disk[b] \in Data
  BY Constants, BlocksAreFileBlocks DEF ByteInv, CallInv, IInv, TypeOK, DiskCoherent
<1>2. \A i \in Slots : ring_buffer[i].content \in Data
  BY DEF ByteInv, IInv, TypeOK, Entry
<1>3. QED
  BY <1>1, <1>2, ContentsShape DEF ContentsAreCacheOverDisk, ByteInv

(* A whole block of the caller's bytes is a merged block with nothing left. *)
LEMMA WholeIsMerged ==
    ASSUME ByteInv, call # Idle, loop.remaining # 0, Amount = BlockSize, NEW block
    PROVE  WholeBuffer = Merged(block)
<1>1. /\ loop.offset = 0 /\ loop.bytes_completed \in Nat /\ BlockSize \in Nat \ {0}
      /\ Amount = BlockSize
  BY IterationInBlock, Constants DEF ByteInv, Loops
<1>2. ASSUME NEW i \in 0 .. BlockSize - 1
      PROVE  /\ i \in loop.offset .. loop.offset + Amount - 1
             /\ loop.bytes_completed + i = loop.bytes_completed + i - loop.offset
  BY <1>1
<1>3. QED
  BY <1>2 DEF WholeBuffer, Merged

LEMMA WriteWholeOnBytes ==
    ASSUME ByteInv, ByteInv', WriteWholeBlock
    PROVE  FlatBytes' = FlatBytes /\ Carried'
<1>1. /\ call' = call /\ call # Idle /\ call.op = "write" /\ loop.remaining # 0
      /\ Amount = BlockSize /\ Advanced
      /\ Contents' = [Contents EXCEPT ![loop.block_id] = WholeBuffer]
  BY WriteWholeStep
<1>2. Contents[loop.block_id] \in Data
  BY <1>1, IterationInBlock, ContentsAreData
<1>3. WholeBuffer = Merged(Contents[loop.block_id])
  BY <1>1, WholeIsMerged
<1>4. FlatBytes' = FlatBytes
  BY <1>1, <1>2, <1>3, WriteOnBytes
<1>5. QED
  BY <1>1, <1>4 DEF Carried, Advanced

LEMMA WriteMergedOnBytes ==
    ASSUME ByteInv, ByteInv', Carried, WriteMerged
    PROVE  FlatBytes' = FlatBytes /\ Carried'
<1>1. /\ call' = call /\ call # Idle /\ call.op = "write" /\ loop.remaining # 0
      /\ Advanced
      /\ Contents' = [Contents EXCEPT ![loop.block_id] = loop.temp_buffer]
  BY WriteMergedStep
<1>2. Contents[loop.block_id] \in Data
  BY <1>1, IterationInBlock, ContentsAreData
<1>3. loop.temp_buffer = Merged(Contents[loop.block_id])
  BY <1>1 DEF Carried, WriteMerged
<1>4. FlatBytes' = FlatBytes
  BY <1>1, <1>2, <1>3, WriteOnBytes
<1>5. QED
  BY <1>1, <1>4 DEF Carried, Advanced

LEMMA ReadForMergeOnBytes ==
    ASSUME ByteInv, ByteInv', ReadForMerge
    PROVE  FlatBytes' = FlatBytes /\ Carried'
<1>1. /\ call' = call /\ call # Idle /\ call.op = "write"
      /\ loop'.block_id = loop.block_id /\ loop'.remaining = loop.remaining
      /\ loop'.offset = loop.offset /\ loop'.bytes_completed = loop.bytes_completed
      /\ loop'.temp_buffer = Merged(Contents[loop.block_id])
      /\ Contents' = Contents
  BY ReadForMergeStep
<1>2. FlatBytes' = FlatBytes
  BY <1>1 DEF FlatBytes, CapacityInBytes
<1>3. Merged(Contents[loop.block_id])' = Merged(Contents[loop.block_id])
  <2>1. Amount' = Amount
    BY <1>1 DEF Amount
  <2>2. QED
    BY <1>1, <2>1 DEF Merged
<1>4. QED
  BY <1>1, <1>2, <1>3 DEF Carried

(* Between calls the array is what the blocks hold. *)
LEMMA IdleBytes ==
    ASSUME ByteInv, call = Idle, NEW a \in 0 .. CapacityInBytes - 1
    PROVE  FlatBytes[a] = StoredByte(a)
<1>1. ~Pending(a)
  BY DEF Pending, Idle
<1>2. QED
  BY <1>1, FlatByte DEF FlatBytesShape

(* A call that is accepted: a read leaves the array as it is, a write lays its *)
(* bytes over it at once, as they are all pending.                         *)
LEMMA BeginReadOnBytes ==
    ASSUME ByteInv, ByteInv', NEW start \in Arguments, NEW nbytes \in Arguments,
           Begin("read", start, nbytes, EmptyBuffer)
    PROVE  Flat!CallRead(start, nbytes) /\ Carried'
<1>1. /\ call = Idle /\ Contents' = Contents
      /\ call' = [op |-> "read", start |-> start, nbytes |-> nbytes, buffer |-> EmptyBuffer]
      /\ reply' = reply /\ loop' = NewLoop(start, nbytes)
  BY QuietKeepsContents DEF Begin, vars, cacheVars
<1>2. FlatBytes' = FlatBytes
  BY <1>1, SameContentsSameBytes DEF Pending, Idle
<1>3. Flat!Accepted(start, nbytes)
  BY AcceptedRange DEF Flat!Accepted, Begin
<1>4. Carried'
  <2>1. loop'.bytes_completed = 0 /\ ~loop'.merging /\ loop'.copied = EmptyBuffer
    BY <1>1 DEF NewLoop
  <2>2. EmptyBuffer = [i \in 0 .. -1 |-> FlatBytes'[call'.start + i]]
    BY DEF EmptyBuffer
  <2>3. QED
    BY <1>1, <2>1, <2>2 DEF Carried
<1>5. QED
  BY <1>1, <1>2, <1>3, <1>4 DEF Flat!CallRead, Flat!Idle, Idle, EmptyBuffer

LEMMA BeginWriteOnBytes ==
    ASSUME ByteInv, ByteInv', NEW start \in Arguments, NEW nbytes \in Arguments,
           NEW buffer \in WriteBuffers[nbytes], Begin("write", start, nbytes, buffer)
    PROVE  Flat!CallWrite(start, nbytes, buffer) /\ Carried'
<1>1. /\ call = Idle /\ Contents' = Contents
      /\ call' = [op |-> "write", start |-> start, nbytes |-> nbytes, buffer |-> buffer]
      /\ reply' = reply /\ loop' = NewLoop(start, nbytes)
  BY QuietKeepsContents DEF Begin, vars, cacheVars
<1>2. Flat!Accepted(start, nbytes) /\ start \in Nat /\ nbytes \in Nat
  BY AcceptedRange DEF Flat!Accepted, Begin
<1>3. loop'.bytes_completed = 0 /\ ~loop'.merging /\ call'.op = "write"
  BY <1>1 DEF NewLoop
<1> DEFINE written == [a \in 0 .. CapacityInBytes - 1 |->
                          IF a \in start .. start + nbytes - 1 THEN buffer[a - start]
                          ELSE FlatBytes[a]]
<1>4. ASSUME NEW a \in 0 .. CapacityInBytes - 1 PROVE FlatBytes'[a] = written[a]
  <2>1. FlatBytes[a] = StoredByte(a) /\ StoredByte(a)' = StoredByte(a)
    BY <1>1, IdleBytes DEF StoredByte
  <2>2. FlatBytes'[a] = IF Pending(a)' THEN call'.buffer[a - call'.start]
                                       ELSE StoredByte(a)'
    BY FlatByteNext DEF FlatBytesShape, CapacityInBytes
  <2>3. call'.start = start /\ call'.buffer = buffer /\ call'.nbytes = nbytes
    BY <1>1
  <2>4. Pending(a)' <=> start + loop'.bytes_completed <= a /\ a < start + nbytes
    BY <1>3, <2>3 DEF Pending, End
  <2>5. Pending(a)' <=> a \in start .. start + nbytes - 1
    BY <1>2, <1>3, <2>4, Constants
  <2>6. QED
    BY <2>1, <2>2, <2>3, <2>5
<1>5. FlatBytes' = written
  BY <1>4, SameBytes
<1>6. Carried'
  BY <1>3 DEF Carried
<1>7. QED
  BY <1>1, <1>2, <1>5, <1>6 DEF Flat!CallWrite, Flat!Idle, Idle, EmptyBuffer, Flat!Addresses

(* At its end a call has nothing pending: a write's bytes are all in their *)
(* blocks, a read has copied the range it names.                           *)
LEMMA FinishOnBytes ==
    ASSUME ByteInv, ByteInv', Carried, Finish
    PROVE  Flat!Answer /\ Carried'
<1>1. /\ call # Idle /\ call' = Idle /\ loop.remaining = 0 /\ Contents' = Contents
      /\ reply' = Reply(0, IF call.op = "read" THEN loop.copied ELSE EmptyBuffer)
  <2>1. UNCHANGED <<disk, cacheVars>>
    BY DEF Finish, vars, cacheVars
  <2>2. Contents' = Contents
    BY <2>1, QuietKeepsContents
  <2> QED  BY <2>2 DEF Finish
<1>2. /\ loop.bytes_completed = call.nbytes /\ call.start \in Nat /\ call.nbytes \in Nat
  <2>1. loop.bytes_completed \in Nat
    BY DEF ByteInv, Loops
  <2>2. /\ loop.remaining + loop.bytes_completed = call.nbytes
        /\ call.start \in Nat /\ call.nbytes \in Nat
    BY <1>1 DEF ByteInv, CallInv, ArgumentsInRange, LoopAtItsPlace
  <2> QED  BY <1>1, <2>1, <2>2
<1>3. \A a \in 0 .. CapacityInBytes - 1 : ~Pending(a) /\ ~Pending(a)'
  BY <1>1, <1>2, Constants DEF Pending, End, Idle
<1>4. FlatBytes' = FlatBytes
  BY <1>1, <1>3, SameContentsSameBytes
<1>5. call.op = "read" => loop.copied = [i \in 0 .. call.nbytes - 1 |->
                                            FlatBytes[call.start + i]]
  BY <1>1, <1>2 DEF Carried
<1>6. QED
  BY <1>1, <1>4, <1>5 DEF Carried, Flat!Answer, Flat!Idle, Flat!Reply, Idle, Reply,
                              EmptyBuffer

(* The argument check refuses the calls the flat array refuses.            *)
LEMMA RejectOnBytes ==
    ASSUME ByteInv, ByteInv', NEW start \in Arguments, NEW nbytes \in Arguments,
           Reject(start, nbytes)
    PROVE  Flat!Refuse(start, nbytes) /\ Carried'
<1>1. /\ call = Idle /\ call' = call /\ Contents' = Contents
      /\ reply' = Reply(1, EmptyBuffer)
  BY QuietKeepsContents DEF Reject, vars, cacheVars
<1>2. FlatBytes' = FlatBytes
  BY <1>1, SameContentsSameBytes DEF Pending, Idle
<1>3. ~Flat!Accepted(start, nbytes)
  <2>1. Rejected(start, nbytes)
    BY DEF Reject
  <2>2. QED
    BY <2>1, AcceptedRange DEF Flat!Accepted
<1>4. QED
  BY <1>1, <1>2, <1>3 DEF Carried, Flat!Refuse, Flat!Idle, Flat!Reply, Idle, Reply,
                              EmptyBuffer

(* Creating the disk fills the array with zeros; opening and closing the   *)
(* cache or the disk changes no byte of it.                                *)
LEMMA ManageOnBytes ==
    ASSUME ByteInv, ByteInv', Manage
    PROVE  [Flat!Next]_<<FlatBytes, call, reply>> /\ Carried'
<1>1. call = Idle /\ call' = call /\ loop' = loop /\ reply' = reply
  BY DEF Manage, byteVars
<1>2. Store!Next
  BY ManageImplementsStore, Constants DEF Manage, ByteInv
<1>3. result'.call \in {"mydisk_init", "mydisk_close", "init_cache", "close_cache"}
  BY DEF Manage, mydisk_init, mydisk_close, init_cache, close_cache, Return
<1>4. Store!Create \/ Contents' = Contents
  BY <1>2, <1>3 DEF Store!Next, Store!Manage, Store!Read, Store!Write, Store!Refuse,
                    Store!Answer
<1>5. \A a \in 0 .. CapacityInBytes - 1 : ~Pending(a) /\ ~Pending(a)'
  BY <1>1 DEF Pending, Idle
<1>6. CASE Contents' = Contents
  BY <1>1, <1>5, <1>6, SameContentsSameBytes DEF Carried
<1>7. CASE Store!Create
  <2>1. ASSUME NEW a \in 0 .. CapacityInBytes - 1 PROVE FlatBytes'[a] = ZeroByte
    <3>1. FlatBytes'[a] = StoredByte(a)'
      BY <1>5, FlatByteNext DEF FlatBytesShape, CapacityInBytes
    <3>2. a \div BlockSize \in Blocks /\ a % BlockSize \in 0 .. BlockSize - 1
      BY AddressIsInABlock
    <3>3. Contents'[a \div BlockSize] = Zero
      BY <1>7, <3>2 DEF Store!Create, Store!Blocks, Blocks
    <3>4. Zero # Absent /\ Zero[a % BlockSize] = ZeroByte
      BY <3>2, Constants, DataAssumption
    <3>5. QED
      BY <3>1, <3>3, <3>4 DEF StoredByte
  <2>2. FlatBytes' = [a \in 0 .. CapacityInBytes - 1 |-> ZeroByte]
    <3> DEFINE zeros == [a \in 0 .. CapacityInBytes - 1 |-> ZeroByte]
    <3>1. \A a \in 0 .. CapacityInBytes - 1 : FlatBytes'[a] = zeros[a]
      BY <2>1
    <3>2. FlatBytes' = [a \in 0 .. CapacityInBytes - 1 |-> zeros[a]]
      BY <3>1, SameBytes
    <3>3. QED
      BY <3>2
  <2>3. Flat!Format
    BY <1>1, <2>2 DEF Flat!Format, Flat!Idle, Flat!Addresses, Idle, EmptyBuffer
  <2>4. QED
    BY <1>1, <2>3 DEF Flat!Next, Carried
<1>8. QED
  BY <1>4, <1>6, <1>7

(* At the start no byte has a value.                                       *)
LEMMA InitOnBytes ==
    ASSUME ByteInit, ByteInv
    PROVE  Flat!Init /\ Carried
<1>1. call = Idle /\ reply = Reply(0, EmptyBuffer)
  BY DEF ByteInit
<1>2. Contents = [b \in Blocks |-> Absent]
  BY InitImplementsStore DEF ByteInit, Store!Init, Store!Blocks, Blocks
<1>3. ASSUME NEW a \in 0 .. CapacityInBytes - 1 PROVE FlatBytes[a] = Absent
  <2>1. a \div BlockSize \in Blocks
    BY AddressIsInABlock
  <2>2. QED
    BY <1>1, <1>2, <2>1, IdleBytes DEF StoredByte
<1>4. FlatBytes = [a \in 0 .. CapacityInBytes - 1 |-> FlatBytes[a]]
  BY DEF FlatBytes
<1>5. FlatBytes = [a \in 0 .. CapacityInBytes - 1 |-> Absent]
  BY <1>3, <1>4
<1>6. QED
  BY <1>1, <1>5 DEF Carried, Flat!Init, Flat!Idle, Flat!Addresses, Flat!Reply, Idle, Reply,
                    EmptyBuffer

(* Every step of the byte interface is a step of the flat array, or none. *)
LEMMA StepImplementsFlat ==
    ASSUME ByteInv, ByteInv', Carried, [ByteNext]_allVars
    PROVE  [Flat!Next]_<<FlatBytes, call, reply>> /\ Carried'
<1>1. CASE Manage
  BY <1>1, ManageOnBytes
<1>2. CASE ReadIteration
  BY <1>2, ReadIterationOnBytes DEF ReadIteration
<1>3. CASE WriteWholeBlock
  BY <1>3, WriteWholeOnBytes DEF WriteWholeBlock
<1>4. CASE ReadForMerge
  BY <1>4, ReadForMergeOnBytes DEF ReadForMerge
<1>5. CASE WriteMerged
  BY <1>5, WriteMergedOnBytes DEF WriteMerged
<1>6. CASE Finish
  <2>1. Flat!Answer /\ Carried'
    BY <1>6, FinishOnBytes
  <2>2. QED
    BY <2>1 DEF Flat!Next
<1>7. CASE \E start, n \in Arguments : Reject(start, n)
  <2>1. PICK start \in Arguments, n \in Arguments : Reject(start, n)
    BY <1>7
  <2>2. Flat!Refuse(start, n) /\ Carried'
    BY <2>1, RejectOnBytes
  <2>3. QED
    BY <2>2 DEF Flat!Next
<1>8. CASE \E start, n \in Arguments : Begin("read", start, n, EmptyBuffer)
  <2>1. PICK start \in Arguments, n \in Arguments : Begin("read", start, n, EmptyBuffer)
    BY <1>8
  <2>2. Flat!CallRead(start, n) /\ Carried'
    BY <2>1, BeginReadOnBytes
  <2>3. QED
    BY <2>2 DEF Flat!Next
<1>9. CASE \E start, n \in Arguments : \E buffer \in WriteBuffers[n] :
              Begin("write", start, n, buffer)
  <2> PICK start \in Arguments, n \in Arguments :
         \E buffer \in WriteBuffers[n] : Begin("write", start, n, buffer)
    BY <1>9
  <2>1. PICK buffer \in WriteBuffers[n] : Begin("write", start, n, buffer)
    OBVIOUS
  <2>2. buffer \in [0 .. n - 1 -> Bytes]
    BY <2>1, BeginKeepsByteInv
  <2>3. Flat!CallWrite(start, n, buffer) /\ Carried'
    BY <2>1, BeginWriteOnBytes
  <2>4. QED
    BY <2>2, <2>3 DEF Flat!Next
<1>10. CASE UNCHANGED allVars
  <2>1. call' = call /\ loop' = loop /\ reply' = reply /\ Contents' = Contents
    BY <1>10, QuietKeepsContents DEF allVars, vars, byteVars, cacheVars
  <2>2. FlatBytes' = FlatBytes
    BY <2>1 DEF FlatBytes, CapacityInBytes
  <2>3. Merged(Contents[loop.block_id])' = Merged(Contents[loop.block_id])
    BY <2>1 DEF Merged, Amount
  <2>4. Carried'
    BY <2>1, <2>2, <2>3 DEF Carried
  <2>5. QED
    BY <2>1, <2>2, <2>4
<1>11. QED
  BY <1>1, <1>2, <1>3, <1>4, <1>5, <1>6, <1>7, <1>8, <1>9, <1>10, ByteSteps

(* mydisk_read and mydisk_write are one flat array of bytes for every disk, *)
(* cache, size of block, range and buffer: a write takes effect as a whole, a *)
(* partial one keeps the rest of its block, and a read returns the bytes of *)
(* its range, whatever is cached or evicted while the loop runs.  A step of *)
(* the block layer maps to no step of the array.                           *)
THEOREM ByteDiskImplementsFlatDisk == ByteSpec => ImplementsFlatDisk
<1>1. ByteInit /\ ByteInv => Flat!Init /\ Carried
  BY InitOnBytes
<1>2. ByteInv /\ ByteInv' /\ Carried /\ [ByteNext]_allVars
        => [Flat!Next]_<<FlatBytes, call, reply>> /\ Carried'
  BY StepImplementsFlat
<1>3. QED
  BY <1>1, <1>2, ByteInvariantHolds, PTL DEF ByteSpec, ImplementsFlatDisk, Flat!Spec
=============================================================================

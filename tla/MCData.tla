------------------------------- MODULE MCData -------------------------------
(***************************************************************************)
(* What is kept for later: the shared pools, the least recently used       *)
(* cache, the buffer, the stacks of contexts, the ring of hashes and the   *)
(* archive.  A behaviour runs one of them, with the constants of its part, *)
(* the others keep their initial state, and the state spaces add up.       *)
(***************************************************************************)
EXTENDS SharedPool, TLC

CONSTANTS a, b, lt, cl1, cl2, cl3, Parts  \* Parts: what a run checks

VARIABLES part,  \* the component that this behaviour runs
          h_avail, h_set, h_waiting, h_pc, h_held, h_token, h_canceled, h_now,
          h_born, h_retired, h_mustdie, h_alive,
          l_list, l_map, l_entries, l_made, l_used, l_bound,
          b_capacity, b_front, b_back, b_block, b_read, b_used, b_promised,
          s_default_stacksize, s_mapped, s_cache, s_live, s_alloc_fail, s_aborted,
          r_hash, r__ring, r_members,
          z_zip, z_source, z_added, z_ops

Symmetric == Permutations({cl1, cl2, cl3})

(* Pools with other constants: of two resources, of resources that may     *)
(* fail, of http clients that are replaced.                                *)
PoolTwo == INSTANCE SharedPool WITH Max <- 2
PoolFails == INSTANCE SharedPool WITH
    Tasks <- {a, b, lt}, Max <- 2, Cancelable <- {a}, MayFail <- TRUE, avail <- h_avail,
    set <- h_set, waiting <- h_waiting, pc <- h_pc, held <- h_held, token <- h_token,
    canceled <- h_canceled
Clients == INSTANCE HttpPool WITH
    Lt <- lt, Max <- 1, Cancelable <- {a}, Pre <- 1, Life <- 2, MaxNow <- 3,
    Tasks <- {a, b, lt}, Resources <- {cl1, cl2, cl3}, MayFail <- FALSE,
    avail <- h_avail, set <- h_set, waiting <- h_waiting, pc <- h_pc,
    held <- h_held, token <- h_token, canceled <- h_canceled, now <- h_now,
    born <- h_born, retired <- h_retired, mustdie <- h_mustdie, alive <- h_alive

(* What is added to an archive: names are of the letters a, b and A and a  *)
(* slash, data is of a few bytes.                                          *)
File(name, data, level) ==
    [name |-> name, data |-> [i \in DOMAIN data |-> <<"byte", data[i]>>], level |-> level]
Files == {File(<<97>>, <<1, 2>>, "store"), File(<<65>>, <<2, 1, 1>>, "deflate"),
          File(<<97, 47>>, <<>>, "store"), File(<<98, 97>>, <<1>>, "deflate"),
          File(<<47>>, <<1>>, "store"), File(<<98>>, <<3, 1>>, "raw")}
NamedFiles == {File(n, <<1>>, "store") :
                 n \in {<<97>>, <<65>>, <<97, 98>>, <<98>>, <<98, 97>>}}

Cache == INSTANCE Lru WITH Keys <- {1, 2, 3}, Values <- {1, 2}, Limit <- 2,
                           MaxSteps <- 6, MayErase <- FALSE, list <- l_list,
                           map <- l_map, entries <- l_entries, made <- l_made,
                           used <- l_used, bound <- l_bound
CacheErase == INSTANCE Lru WITH
    Keys <- {1, 2, 3}, Values <- {1, 2}, Limit <- 2, MaxSteps <- 6,
    MayErase <- TRUE, list <- l_list, map <- l_map, entries <- l_entries,
    made <- l_made, used <- l_used, bound <- l_bound

Bytes == INSTANCE Buffer WITH
    Width <- 5, Capacity <- 3, Sizes <- {1, 2, 3, 5}, MaxBytes <- 8,
    capacity <- b_capacity, front <- b_front, back <- b_back, block <- b_block,
    read <- b_read, used <- b_used, promised <- b_promised

Alloc == INSTANCE StackAlloc WITH
    Threads <- {a, b}, MaxStacks <- 6, Sizes <- {1},
    default_stacksize <- s_default_stacksize, mapped <- s_mapped, cache <- s_cache,
    live <- s_live, alloc_fail <- s_alloc_fail, aborted <- s_aborted

Ring == INSTANCE HashRing WITH
    Nodes <- {"n1", "n2", "n3"}, Replicas <- 2, MaxPoint <- 6, Collisions <- FALSE,
    hash <- r_hash, _ring <- r__ring, members <- r_members
RingCollide == INSTANCE HashRing WITH
    Nodes <- {"n1", "n2", "n3"}, Replicas <- 2, MaxPoint <- 3, Collisions <- TRUE,
    hash <- r_hash, _ring <- r__ring, members <- r_members

Zip == INSTANCE ZipArchive WITH
    Backends <- {"heap", "file"}, Reserves <- {1}, Cut <- 1, MaxFiles <- 4,
    MaxSize <- 40, MinCap <- 4, Window <- 12, MaxTail <- 30, IoBuf <- 2,
    StoreLimit <- 1, Inputs <- Files, Alignments <- {2},
    Fuses <- {<<>>} \cup {<<k>> : k \in 0..12} \cup {<<k, 1>> : k \in 6..8},
    MaxOps <- 6, MaxEntries <- 3, zip <- z_zip, source <- z_source,
    added <- z_added, ops <- z_ops
ZipFind == INSTANCE ZipArchive WITH
    Backends <- {"heap"}, Reserves <- {1}, Cut <- 1, MaxFiles <- 5, MaxSize <- 40,
    MinCap <- 4, Window <- 12, MaxTail <- 30, IoBuf <- 2, StoreLimit <- 1,
    Inputs <- NamedFiles, Alignments <- {0}, Fuses <- {<<>>}, MaxOps <- 7,
    MaxEntries <- 5, zip <- z_zip, source <- z_source, added <- z_added,
    ops <- z_ops

poolVars == <<avail, set, waiting, pc, held, token, canceled>>
lentVars == <<h_avail, h_set, h_waiting, h_pc, h_held, h_token, h_canceled>>
ageVars == <<h_now, h_born, h_retired, h_mustdie, h_alive>>
lruVars == <<l_list, l_map, l_entries, l_made, l_used, l_bound>>
bufferVars == <<b_capacity, b_front, b_back, b_block, b_read, b_used, b_promised>>
stackVars == <<s_default_stacksize, s_mapped, s_cache, s_live, s_alloc_fail,
               s_aborted>>
ringVars == <<r_hash, r__ring, r_members>>
zipVars == <<z_zip, z_source, z_added, z_ops>>
NotPool == <<part, lentVars, ageVars, lruVars, bufferVars, stackVars, ringVars, zipVars>>
NotHttp == <<part, poolVars, lruVars, bufferVars, stackVars, ringVars, zipVars>>
NotLru == <<part, poolVars, lentVars, ageVars, bufferVars, stackVars, ringVars, zipVars>>
NotBuffer == <<part, poolVars, lentVars, ageVars, lruVars, stackVars, ringVars, zipVars>>
NotStack == <<part, poolVars, lentVars, ageVars, lruVars, bufferVars, ringVars, zipVars>>
NotRing == <<part, poolVars, lentVars, ageVars, lruVars, bufferVars, stackVars, zipVars>>
NotZip == <<part, poolVars, lentVars, ageVars, lruVars, bufferVars, stackVars, ringVars>>
allVars == <<part, poolVars, lentVars, ageVars, lruVars, bufferVars, stackVars, ringVars, zipVars>>

Start ==
    /\ part \in Parts
    /\ Init
    /\ Clients!HttpInit
    /\ Cache!Init
    /\ Bytes!Init
    /\ Alloc!Init
    /\ IF part = "ring" THEN Ring!Init
       ELSE IF part = "ring_collide" THEN RingCollide!Init
       ELSE r_hash = 0 /\ r__ring = 0 /\ r_members = 0
    /\ IF part = "zip" THEN Zip!Init
       ELSE IF part = "zip_find" THEN ZipFind!Init
       ELSE z_zip = 0 /\ z_source = 0 /\ z_added = 0 /\ z_ops = 0

Steps ==
    \/ part = "pool" /\ Next /\ UNCHANGED NotPool
    \/ part = "pool_two" /\ PoolTwo!Next /\ UNCHANGED NotPool
    \/ part = "pool_fails" /\ PoolFails!Next /\ UNCHANGED <<ageVars, NotHttp>>
    \/ part = "http_pool" /\ Clients!HttpNext /\ UNCHANGED NotHttp
    \/ part = "lru" /\ Cache!Next /\ UNCHANGED NotLru
    \/ part = "lru_erase" /\ CacheErase!Next /\ UNCHANGED NotLru
    \/ part = "buffer" /\ Bytes!Next /\ UNCHANGED NotBuffer
    \/ part = "stack" /\ Alloc!Next /\ UNCHANGED NotStack
    \/ part = "ring" /\ Ring!Next /\ UNCHANGED NotRing
    \/ part = "ring_collide" /\ RingCollide!Next /\ UNCHANGED NotRing
    \/ part = "zip" /\ Zip!Next /\ UNCHANGED NotZip
    \/ part = "zip_find" /\ ZipFind!Next /\ UNCHANGED NotZip

Safe == Start /\ [][Steps]_allVars
-----------------------------------------------------------------------------
(* Properties: those of the modules, of the component that runs.           *)


\* A client of an http_pool is lent to one task at a time, one that clear() or a discard
\* has dropped never comes back, none gets lost between the lifetime worker and the
\* borrowers, and when all is quiet nobody waits for one; what is lent stays apart also
\* in a shared_pool whose new_resource() throws.
HttpPoolServes ==
    /\ part \in {"pool_fails", "http_pool"} => Clients!PoolAccounts
    /\ part = "http_pool" => Clients!NoOrphan /\ Clients!NobodyLeft


\* Between front() and back() of a buffer are the bytes that were read and not removed,
\* and what reserve was asked for is there until it is committed.
BufferContents == part = "buffer" => Bytes!Contents /\ Bytes!ReserveRoom

\* Every mapping is the stack of one context or is in one thread's cache, once.
StackOneOwner == part = "stack" => Alloc!OneOwner


=============================================================================

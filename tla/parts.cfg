\* A ring of 12 dwords, a timeline with two objects, a process
\* with two entries of two pages, a virtual buffer of three pages; a process with
\* two files, threads and entries, two fences of a context or a sync source,
\* two snapshots, regions of four pages, and six pages with two allocations of three.
SPECIFICATION PartsSpec
CONSTANTS
    Dwords = 12
    MaxSubmit = 5
    Fences = {"f1"}
    Objs = {"o1", "o2"}
    User = "user"
    MaxSeqno = 3
    MaxSignals = 2
    Entries = {1, 2}
    PageCount = 2
    PageLimit = 4
    MaxScan = 4
    Submitters = {"s"}
    Binders = {"b"}
    BufferPages = {1, 2, 3}
    Children = {"c", "d"}
    Workers = {"w1", "w2"}
    Buffers <- FourBuffers
    Privs = {"p1", "p2"}
    Files = {"a", "b"}
    Memory = {1, 2}
    Ioctls = {"t1", "t2"}
    MaxMaps = 2
    Lives <- FiveLives
    Sfences = {"f1", "f2"}
    Creators = {"c"}
    Removers = {"r1", "r2"}
    Snaps = {1, 2}
    Readers = {"r1", "r2"}
    MaxFaults = 2
    MaxPages = 2
    PoolPages = 6
    Clients = {"a", "b"}
    Sizes = {3}
    TopOrder = 1
    MaxScans = 1
    Objects = {"a", "b"}
    Busy = {3, 7}
INVARIANTS NothingOverwritten PagesKept BuffersKept ProcessKept FencesKept
    SnapshotKept AddressesKept
PROPERTIES TimelineKept PoolKept
CHECK_DEADLOCK FALSE

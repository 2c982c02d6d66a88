SPECIFICATION Spec
SYMMETRY ThreadSymmetry
CONSTANTS
    Threads = {t1, t2, t3}
    Latencies = {999, 1000, 1050, 1000000}
    MaxRecords = 3
    Permilles = {0, 500, 900, 999, 1000}
INVARIANTS QuietIsExact SnapshotSound

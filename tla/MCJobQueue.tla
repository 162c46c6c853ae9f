----------------------------- MODULE MCJobQueue -----------------------------
EXTENDS JobQueue, TLC

WorkerSymmetry == Permutations(DownloadWorker)

=============================================================================

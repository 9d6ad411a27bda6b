SPECIFICATION FairSpec
CONSTANTS
  t1 = t1
  t2 = t2
  t3 = t3
  Threads = {t1, t2, t3}
  extract_port_count = 2
INVARIANTS TypeOK PortExclusive OwnAnswer FreePortClosed
PROPERTIES FinderServed ActsAsOneSemaphore

CONSTANTS
  t1 = t1  t2 = t2  t3 = t3  t4 = t4
  p1 = p1  p2 = p2
  s1 = s1  s2 = s2  s3 = s3  s4 = s4
  None = None
  Projects = {p1, p2}
  Tasks = {t1, t2, t3, t4}
  ProjectOfTask <- MCProjectOfTask
  Semaphores = {s1, s2, s3, s4}
SPECIFICATION FairSpec
INVARIANT OneLiveSemaphore
PROPERTIES ImplementsMutex WaitersServed

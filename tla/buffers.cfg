SPECIFICATION MCSpec
CONSTANTS
  mem = mem
  disk = disk
  cpu = cpu
  irq = irq
  freq = freq
  Always = {cpu}
  Fixed = {mem}
  Listed = {disk, cpu}
  Irq = {}
  Freq = {}
  Selected = {mem, disk}
  FirstFiles <- SomeLists
  NextFiles <- SomeLists
  MaxItems = 3
  MaxSubs = 1
  Instances = {"lists", "matrix"}
INVARIANTS MCWritesWhatWasRead MCInBounds MCReadCanGrow MCHeaderAccepted

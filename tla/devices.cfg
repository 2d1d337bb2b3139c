CONSTANTS
    Disks = {"sda", "sdb"}
    Parts = {"sda1"}
    DiskOf <- MCDiskOf
    Works <- MCWorks
    MaxReg = 1
    MaxSamples = 4
    Width = 64
    Width32 = 16
    Groups = {"g1", "g2"}
    NoGroup = "none"
    Tools = {"iostat", "cifsiostat", "tapestat"}
    DriveSeq <- MCDriveSeq
    Garbage = {0, 9}
    Options <- OtherOptions
SPECIFICATION MCSpec
INVARIANT MCLinesTrue ReportsDevices

---------------------------- MODULE MCUsbMonitor ----------------------------
EXTENDS UsbMonitor, TLC

TaskSymmetry == Permutations(Task)

=============================================================================

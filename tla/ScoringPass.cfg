SPECIFICATION FairSpec
CONSTANTS
  a = a b = b c = c s = s p = p n1 = n1 n2 = n2 n3 = n3 n4 = n4 n5 = n5 m1 = m1 m2 = m2
  Recordings = {a, b, c, s, p}
  NoteNames = {n1, n2, n3, n4, n5}
  Sound <- MCSound
  Cosine <- MCCosine
  RecordingOf <- MCRecordingOf
  NoRecording = none
  Models = {m1}
  NoModel = nomodel
  InitVaults <- Vaults
  InitCaches <- Caches
  Coming = {n3}
  MaxEdits = 1
  MaxFaults = 1
  MaxKills = 1
PROPERTIES GalleryIsTicked VoiceIsDeserved RecordBeforeNote ImplementsBook EveryNoteScored RecordsRebuilt

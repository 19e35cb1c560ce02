SPECIFICATION DocumentsSpec
CONSTANTS
  fa = fa
  fb = fb
  s1 = s1
  s2 = s2
  x1 = x1
  x2 = x2
  k1 = k1
  k2 = k2
  p1 = p1
  p2 = p2
  g1 = g1
  e1 = e1
  n1 = n1
  Root = Root
  None = None
  Folders <- MCFolders
  Secrets <- MCSecrets
  Fields <- MCFields
  Labels <- MCLabels
  Providers <- MCProviders
  Groups <- MCGroups
  Projects <- MCProjects
  Names <- MCNames
  Forms <- MCForms
  Families <- MCFamilies
  MaxPins = 1
  va = va
  vb = vb
  im1 = im1
  im2 = im2
  Blank = Blank
  Redacted = Redacted
  ImageKey = ImageKey
  CertificateKey = CertificateKey
  FormValues <- TwoValues
  FormTyped <- OneTyped
  FormImages <- TwoImages
  FormKeys <- MCLabels
  FormTypes <- FourTypes
  FormTemplate <- Templates
  FormDocuments <- TwoDocuments
  FormCasts <- NineCasts
INVARIANT CommandsInv
INVARIANT FormInv
PROPERTY CommandsKeep
PROPERTY FormSaves
CHECK_DEADLOCK FALSE
